---- MODULE Spec2Model ----
(***************************************************************************)
(* State-machine model of the query-to-answer pipeline of MixAIService:    *)
(* the agent facade (chat / generate_code / execute_code), the three entry *)
(* points of GenerateChatPipeline, the generation and execution steps, the *)
(* error-correction sub-pipeline, the PipelineContext and the tracker.     *)
(***************************************************************************)
EXTENDS Integers, Sequences, FiniteSets, TLC

\* ------------------------------------------------------------------ bounds
MaxRetriesBound == 2   \* config.max_retries ranges over 0..MaxRetriesBound
MaxRuns == 2           \* top-level calls made on one agent in a behaviour
SingleCall == 1        \* calls in the behaviours that study one call
MaxDfs == 2            \* data sources bound to one context

\* ------------------------------------------------------------ value domains
\* Every value stored in a dict of the model is a string, so that values of
\* different python types can share one dict: None is "None", True is "True".
None == "None"
True == "True"

\* Codes the LLM collaborator may return ("" is the empty string).
Codes == {"", "c1", "c2"}
\* Code the caller hands to execute_code.
CallerCodes == {"c1"}
OutputTypes == {"number"}
ExceptionKinds == {"InvalidLLMOutputType", "ExecuteSQLQueryNotUsed", "Exception"}
\* Results of running a code: a dict of the requested output type, a dict of
\* another type, None, or a value that is no dict.
DictResults == {"valid", "invalid"}
ResultKinds == DictResults \cup {"none", "nondict"}

\* Queries are named by a string; QueryText gives the characters the agent's
\* keyword check reads.
BenignQuery == "avg"
AllQueries == {"avg", "os", "cost", ".osx", "xchr(", "audio"}

QueryText(q) ==
    CASE q = "avg" -> <<"a", "v", "g">>
      [] q = "os" -> <<"o", "s">>
      [] q = "cost" -> <<"c", "o", "s", "t">>
      [] q = ".osx" -> <<".", "o", "s", "x">>
      [] q = "xchr(" -> <<"x", "c", "h", "r", "(">>
      [] q = "audio" -> <<"a", "u", "d", "i", "o">>

\* ------------------------------------------------------- python-like dicts
EmptyDict == [k \in {} |-> None]

Put(d, k, v) == [x \in (DOMAIN d) \cup {k} |-> IF x = k THEN v ELSE d[x]]

\* dict.update(other)
Update(d, other) ==
    [x \in (DOMAIN d) \cup (DOMAIN other) |-> IF x \in DOMAIN other THEN other[x] ELSE d[x]]

\* dict.get(key, default)
DictGet(d, k, default) == IF k \in DOMAIN d THEN d[k] ELSE default

\* Python truthiness of a stored value and of a dict.
Truthy(v) == v \notin {None, "", "False"}

DictTruthy(d) == DOMAIN d # {}

\* ------------------------------------------------------------ data sources
\* A connector: an SQL connector with its credentials, or a pandas connector
\* that is or is not SQL-enabled.
Connectors ==
    { [kind |-> "sql", cred |-> 1, sql_enabled |-> FALSE],
      [kind |-> "sql", cred |-> 2, sql_enabled |-> FALSE],
      [kind |-> "pandas", cred |-> 0, sql_enabled |-> TRUE],
      [kind |-> "pandas", cred |-> 0, sql_enabled |-> FALSE] }

DfsLists == UNION { [1..n -> Connectors] : n \in 0..MaxDfs }

\* SQLConnector.equals: same data source and credentials.
ConnectorEquals(a, b) == a.kind = "sql" /\ b.kind = "sql" /\ a.cred = b.cred

\* The criterion of ValidatePipelineInput._validate_direct_sql.
DirectSqlCriterion(ds) ==
    \/ \A i \in 1..Len(ds) : ds[i].kind = "sql" /\ ConnectorEquals(ds[i], ds[1])
    \/ \A i \in 1..Len(ds) : ds[i].kind = "pandas" /\ ds[i].sql_enabled

\* A validation that accepts every list of data sources.
validate_direct_sql_never(cfg, ds) == FALSE

\* ValidatePipelineInput._validate_direct_sql: TRUE when it raises
\* InvalidConfigError.
validate_direct_sql_raises(cfg, ds) == cfg.direct_sql /\ ~DirectSqlCriterion(ds)

\* ------------------------------------------------- malicious keyword check
\* \w for the characters that occur in the model's queries and patterns.
WordChars ==
    {"a", "b", "c", "d", "e", "g", "h", "i", "o", "r", "s", "t", "u", "v", "x", "4", "6"}

IsWordAt(s, i) == i >= 1 /\ i <= Len(s) /\ s[i] \in WordChars

\* The literal w occurs in s starting at position i.
MatchAt(s, i, w) ==
    /\ i + Len(w) - 1 <= Len(s)
    /\ \A j \in 1..Len(w) : s[i + j - 1] = w[j]

\* \b before position i: exactly one of the characters i-1 and i is a word
\* character.
WordBoundary(s, i) == IsWordAt(s, i - 1) # IsWordAt(s, i)

BoundaryWords ==
    { <<"o", "s">>, <<"i", "o">>, <<"c", "h", "r">>,
      <<"b", "6", "4", "d", "e", "c", "o", "d", "e">> }

Literals ==
    { <<".", "o", "s">>, <<".", "i", "o">>, <<"'", "o", "s", "'">>,
      <<"'", "i", "o", "'">>, <<"\"", "o", "s", "\"">>, <<"\"", "i", "o", "\"">>,
      <<"c", "h", "r", "(">>, <<"c", "h", "r", ")">>, <<"c", "h", "r", " ">>,
      <<"(", "c", "h", "r">> }

\* A keyword check that knows only the literal alternatives of the pattern and
\* none of the \b-delimited words.
check_literals_only(s) ==
    \E w \in Literals : \E i \in 1..Len(s) : MatchAt(s, i, w)

\* BaseAgent.check_malicious_keywords_in_query: dangerous_pattern.search(query).
check_malicious_keywords_in_query(s) ==
    \/ \E w \in BoundaryWords : \E i \in 1..Len(s) :
          MatchAt(s, i, w) /\ WordBoundary(s, i) /\ WordBoundary(s, i + Len(w))
    \/ \E w \in Literals : \E i \in 1..Len(s) : MatchAt(s, i, w)

\* ------------------------------------------------------------------- state
VARIABLES
    config,               \* PipelineContext.config (fixed after construction)
    dfs,                  \* PipelineContext.dfs
    pool,                 \* the environment: the queries the caller may pose
                          \* and the exceptions a code execution may raise
    initial_values,       \* PipelineContext._initial_values (the object's content)
    intermediate_values,  \* PipelineContext.intermediate_values
    memory,               \* PipelineContext.memory: sequence of <<text, is_user>>
    cache_present,        \* PipelineContext.cache is not None
    cache,                \* the cache's store: key -> code
    tracker,              \* QueryExecTracker: steps, success, started
    pc,                   \* position of the call in progress
    entry,                \* entry point of the call in progress
    data,                 \* value flowing from step to step: <<kind, value>>
    err,                  \* exception in flight
    retStage,             \* main stage an error-correction cycle returns to
    retry_count,          \* attempt counter of the run
    last_error,           \* GenerateChatPipeline.last_error
    result,               \* what the call returned to its caller
    obs,                  \* counters of what the call in progress did
    prev,                 \* obs of the previous call and the key it used
    snapshot,             \* initial_values as given to the constructor
    wiring,               \* GenerateChatPipeline: judge given, and what the
                          \* attribute code_generation_pipeline resolves to
    judge_retry_count,    \* the local retry_count of run's judge loop
    inflight,             \* overlapping calls: each caller's position and
                          \* local values, and the context of each agent
    prompt_call           \* a call of BaseAgent.call_llm_with_prompt: its
                          \* position, its local retry_count and its outcome

vars ==
    << config, dfs, pool, initial_values, intermediate_values, memory,
       cache_present, cache, tracker, pc, entry, data, err, retStage,
       retry_count, last_error, result, obs, prev, snapshot, wiring,
       judge_retry_count, inflight, prompt_call >>

ctxVars == << config, dfs, pool, snapshot, wiring, inflight, prompt_call >>

\* ------------------------------------------------------------ observations
\* What the call in progress has done so far; reset when a call begins.
NoData == <<"none", None>>
NoResult == <<"none", "none", None>>

NoPrompt == [template |-> None, code |-> None]

\* No failure record.
NoFailure ==
    [ type |-> None, success |-> FALSE, message |-> None, execution_time |-> None,
      data |-> [content_type |-> None, value |-> None, exception |-> None] ]

FreshObs ==
    [ ivAfterReset |-> EmptyDict,  \* intermediate_values right after the reset
      llm |-> 0,          \* LLM generate_code calls (main step and cycles)
      gen |-> 0,          \* executions of the main CodeGenerator step
      prompt |-> 0,       \* executions of the main PromptGeneration step
      pop |-> 0,          \* cache writes (CachePopulation)
      lookups |-> 0,      \* executions of CacheLookup
      validated |-> 0,    \* executions of ValidatePipelineInput
      hit |-> FALSE,      \* CacheLookup set found_in_cache in this call
      hitCode |-> None,   \* the code CacheLookup returned on the hit
      key |-> << >>,      \* cache key of this call (the conversation)
      stored |-> None,    \* code CachePopulation stored
      cleanIn |-> NoData, \* first value handed to the main CodeCleaning
      cleanCycles |-> 0,  \* correction cycles started by CodeCleaning
      execCycles |-> 0,   \* correction cycles started by CodeExecution
      ecLlm |-> 0,        \* LLM calls made inside correction cycles
      cleanFails |-> 0,   \* failed attempts of the main CodeCleaning
      execFails |-> 0,    \* failed attempts of CodeExecution
      execOk |-> 0,       \* successful attempts of CodeExecution
      firstExecFailed |-> FALSE, \* the first attempt of CodeExecution raised
      otherFail |-> FALSE,\* a step without on_retry raised
      corrected |-> NoData, \* output of the last correction cycle
      executed |-> NoData,  \* value CodeExecution last ran successfully
      published |-> 0,    \* tracker.publish() calls
      successAtPublish |-> FALSE,
      began |-> FALSE,    \* the entry point's preamble completed
      arg |-> None,       \* the query or code the caller passed
      evals |-> 0,        \* judge.evaluate calls
      regens |-> 0,       \* generation-pipeline runs started by the judge loop
      reads |-> 0,        \* cache.get calls
      candidate |-> NoData, \* output of the last run of the generation steps,
                          \* until CodeExecution receives it
      execFrom |-> "none",\* what the first attempt of CodeExecution received:
                          \* the candidate, the caller's code, or another value
      ecPrompts |-> 0,    \* prompts built by ErrorPromptGeneration
      ecPrompt |-> NoPrompt, \* the correction prompt the LLM has yet to receive
      ecFor |-> NoData,   \* the exception and the code that prompt was built for
      resval |-> 0,       \* executions of ResultValidation
      parsed |-> 0,       \* executions of ResultParsing
      failure |-> NoFailure, \* the record the failure hook last built, until
                          \* the correction cycle it precedes has started
      posts |-> 0,        \* requests publish sent to the collector
      answer |-> None,    \* the collector's answer to the last of them
      sentSteps |-> << >>,\* the steps of the last trace sent
      rvIn |-> None,      \* the input of ResultValidation
      rv |-> [value |-> None, success |-> FALSE, message |-> None],
                          \* the output of ResultValidation
      verdict |-> FALSE ] \* the security agent judged the query malicious

Bump(o, f) == [o EXCEPT ![f] = @ + 1]

\* ------------------------------------------------------------ construction
\* PipelineContext.__init__: intermediate_values = initial_values or {};
\* cache = (cache or Cache()) if config.enable_cache else None.
\* An absent initial_values (None) and an empty one behave alike and are
\* both written EmptyDict.
InitialValuesChoices == { EmptyDict, [k0 |-> "v0"] }

SecurityLevels == {"standard", "none", "advanced"}

\* last_log_id is a positive number, or NoLogId for None.
NoLogId == 0

\* QueryExecTracker.__init__: _success False, _start_time None, _last_log_id
\* None, _query_info {}.
NewTracker ==
    [steps |-> << >>, success |-> FALSE, started |-> FALSE, last_log_id |-> NoLogId,
     query_info |-> None, dataframes |-> 0]

\* What publish reads: whether the tracker was built with a server_config, the
\* server_config, and the environment variable PANDASAI_API_KEY (None when
\* unset).
LogServer(given, server_config, env) ==
    [given |-> given, server_config |-> server_config, env |-> env]

NoLogServer == LogServer(FALSE, EmptyDict, None)

KeyValues == {None, "", "k"}

LogServers ==
    { LogServer(FALSE, EmptyDict, env) : env \in KeyValues }
    \cup { LogServer(TRUE, sc, env) :
              sc \in {EmptyDict} \cup { [api_key |-> k] : k \in KeyValues },
              env \in KeyValues }

\* The collector's answer to a request: status 200 with a data field holding
\* a log_id, with data null, without a data field, with a data that has no
\* log_id, with a body that is no JSON; another status; or no answer at all.
Answers ==
    {"data", "null_data", "no_data", "no_log_id", "bad_json", "status_500",
     "transport_error"}

\* The environment of a behaviour: the queries posed, the kinds of exception
\* that running a code raises, the results it returns, the number of calls
\* the caller makes, the codes the LLM answers with, the stages whose step
\* may raise an exception of its own, the log-server settings the tracker
\* reads, and what the collector may answer to a published trace.
Pool(queries, kinds, results, calls) ==
    [queries |-> queries, kinds |-> kinds, results |-> results, calls |-> calls,
     codes |-> Codes, faults |-> {}, log |-> NoLogServer, answers |-> {"data"}]

\* PipelineContext.__init__, the cache: with config.enable_cache the cache
\* supplied by the caller or else a new Cache(), without it None. TRUE when
\* the context holds a cache.
\* A context that keeps the cache it was handed whatever the switch says.
ContextCacheKeepsSupplied(enable_cache, supplied) == enable_cache \/ supplied

ContextCache(enable_cache, supplied) == IF enable_cache THEN TRUE ELSE FALSE

\* GenerateChatPipeline as built: whether a judge was given, and what
\* self.code_generation_pipeline denotes. The attribute is bound once, at class
\* level, to the class Pipeline, and __init__ hands the generation steps to
\* super().__init__: "steps" when the call through the attribute runs these
\* steps, "class" when it is a call on the class and raises.
\* The agent's pipeline: none (BaseAgent.__init__ leaves self.pipeline None),
\* the GenerateChatPipeline that Agent.__init__ builds, which is given no
\* tracker, or a GenerateChatPipeline built with a tracker.
Pipelines == {"none", "untracked", "tracked"}

Wirings(judges, targets) ==
    [judge : judges, code_generation_pipeline : targets, pipeline : {"tracked"}]

AgentWirings ==
    [judge : {FALSE}, code_generation_pipeline : {"steps"}, pipeline : Pipelines]

NewCache == { EmptyDict }

\* Callers whose calls may overlap, and the agents they call: each agent has
\* one PipelineContext, one tracker and one pipeline.
Threads == {"t1", "t2"}
Agents == {"a1", "a2"}

\* Both callers use one agent, or each caller uses an agent of its own.
OneAgent == [t \in Threads |-> "a1"]
SeparateAgents == [t \in Threads |-> IF t = "t1" THEN "a1" ELSE "a2"]

\* Three callers, each with an agent of its own.
Callers == Threads \cup {"t3"}
ThreeAgents == [t \in Callers |-> CASE t = "t1" -> "a1" [] t = "t2" -> "a2" [] OTHER -> "a3"]

NewContext == [intermediate_values |-> EmptyDict, memory |-> << >>, steps |-> << >>]

\* A caller that has not called yet: its position, the value passed from step
\* to step, what it wrote to the context, the steps it recorded, the key and
\* outcome of its lookup, the value the condition of its lookup found, the
\* code it wrote to the cache, and what it returned.
IdleCall ==
    [pc |-> "idle", data |-> NoData, wrote |-> EmptyDict, recorded |-> 0,
     key |-> << >>, missed |-> FALSE, seen |-> None, stored |-> None,
     result |-> NoData]

NoCalls(arrangement) ==
    [ctx |-> arrangement,
     th |-> [t \in DOMAIN arrangement |-> IdleCall],
     contexts |-> [a \in { arrangement[t] : t \in DOMAIN arrangement } |-> NewContext],
     lastWriter |-> EmptyDict,
     later |-> NoData]

\* No overlapping calls: the callers of an agent call it one after another.
Sequential == { "sequential" }

\* No call of call_llm_with_prompt: use_error_correction_framework as
\* configured, nothing called, nothing returned or raised.
NoPromptCall(use_error_correction_framework) ==
    [ pc |-> "idle",
      use_error_correction_framework |-> use_error_correction_framework,
      retry_count |-> 0, calls |-> 0, failed |-> 0,
      result |-> None, error |-> None, last_failure |-> None ]

InitContext(cfgs, dfsChoices, pools, ivs, wirings, caches, arrangements) ==
    /\ config \in cfgs
    /\ inflight \in arrangements
    /\ wiring \in wirings
    /\ judge_retry_count = 0
    /\ dfs \in dfsChoices
    /\ pool \in pools
    /\ initial_values \in ivs
    /\ snapshot = initial_values
    /\ intermediate_values = (IF DictTruthy(initial_values) THEN initial_values ELSE EmptyDict)
    /\ memory = << >>
    /\ cache \in caches
    /\ cache_present = ContextCache(config.enable_cache, cache # EmptyDict)
    /\ tracker = NewTracker
    /\ pc = "idle"
    /\ entry = "none"
    /\ data = NoData
    /\ err = None
    /\ retStage = "none"
    /\ retry_count = 0
    /\ last_error = None
    /\ result = NoResult
    /\ obs = FreshObs
    /\ prev = [runs |-> 0, key |-> << >>, stored |-> None, gen |-> 0, llm |-> 0,
               wasRun |-> FALSE, log_id |-> NoLogId]

InitWith(cfgs, dfsChoices, pools, ivs, wirings, caches, arrangements) ==
    /\ InitContext(cfgs, dfsChoices, pools, ivs, wirings, caches, arrangements)
    /\ prompt_call = NoPromptCall(TRUE)

Configs(retries, levels, agents) ==
    [ max_retries : retries,
      enable_cache : BOOLEAN,
      direct_sql : BOOLEAN,
      security : levels,
      security_agent : agents ]

SqlA == [kind |-> "sql", cred |-> 1, sql_enabled |-> FALSE]
SqlB == [kind |-> "sql", cred |-> 2, sql_enabled |-> FALSE]

Retries == 0..MaxRetriesBound

\* Two SQL connectors with different credentials: the context passes input
\* validation exactly when config.direct_sql is off. One call is made.
Init ==
    InitWith(Configs(Retries, {"standard"}, {FALSE}), { <<SqlA, SqlB>> },
             { Pool({BenignQuery}, ExceptionKinds, DictResults, SingleCall) }, InitialValuesChoices,
             Wirings({FALSE}, {"steps", "class"}), NewCache, Sequential)

\* Contexts with caching on that pass input validation, for the behaviours of
\* consecutive calls; a code that runs returns a result of the requested type.
InitRuns ==
    InitWith({ c \in Configs(Retries, {"standard"}, {FALSE}) :
                  c.enable_cache /\ ~c.direct_sql },
             { <<SqlA, SqlB>> },
             { Pool({BenignQuery}, {"Exception"}, {"valid"}, MaxRuns) }, InitialValuesChoices,
             Wirings({FALSE}, {"steps"}), NewCache, Sequential)

\* Every list of data sources, for the behaviours that study input validation.
InitDfs ==
    InitWith({ c \in Configs({1}, {"none"}, {FALSE}) : ~c.enable_cache }, DfsLists,
             { Pool({BenignQuery}, {"Exception"}, DictResults, SingleCall) }, { EmptyDict },
             Wirings({FALSE}, {"steps"}), NewCache, Sequential)

\* Every security setting and query, for the behaviours that study the
\* agent's refusal of a query.
InitSecurity ==
    InitWith({ c \in Configs({1}, SecurityLevels, BOOLEAN) : ~c.enable_cache /\ ~c.direct_sql },
             { <<SqlA>> },
             { Pool(AllQueries, {"Exception"}, DictResults, SingleCall) }, { EmptyDict },
             Wirings({FALSE}, {"steps"}), NewCache, Sequential)

\* The caches a caller may hand to PipelineContext: an empty one, or one that
\* already holds a code under the key of the first query.
SuppliedCaches == { EmptyDict, Put(EmptyDict, << <<BenignQuery, TRUE>> >>, "c2") }

\* Contexts built with caching on or off and with either supplied cache.
InitCache ==
    InitWith({ c \in Configs(0..1, {"standard"}, {FALSE}) : ~c.direct_sql },
             { <<SqlA, SqlB>> },
             { Pool({BenignQuery}, {"Exception"}, DictResults, MaxRuns) }, { EmptyDict },
             Wirings({FALSE}, {"steps"}), SuppliedCaches, Sequential)

\* Codes whose run returns any kind of result, for the behaviours that study
\* the validation of the result.
InitValidation ==
    InitWith({ c \in Configs(0..1, {"standard"}, {FALSE}) : ~c.enable_cache /\ ~c.direct_sql },
             { <<SqlA, SqlB>> },
             { Pool({BenignQuery}, {"Exception"}, ResultKinds, SingleCall) }, { EmptyDict },
             Wirings({FALSE}, {"steps"}), NewCache, Sequential)

\* Two agents, each with its own context, handed one cache.
InitSharedCache ==
    InitWith({ c \in Configs({1}, {"standard"}, {FALSE}) : c.enable_cache /\ ~c.direct_sql },
             { <<SqlA>> },
             { Pool({BenignQuery}, {"Exception"}, DictResults, SingleCall) }, { EmptyDict },
             Wirings({FALSE}, {"steps"}), NewCache, { NoCalls(SeparateAgents) })

\* Three agents, each with its own context, handed one cache.
InitLookup ==
    InitWith({ c \in Configs({1}, {"standard"}, {FALSE}) : c.enable_cache /\ ~c.direct_sql },
             { <<SqlA>> },
             { Pool({BenignQuery}, {"Exception"}, DictResults, SingleCall) }, { EmptyDict },
             Wirings({FALSE}, {"steps"}), NewCache, { NoCalls(ThreeAgents) })

\* One agent called by two callers at once.
InitOneAgent ==
    InitWith({ c \in Configs({1}, {"standard"}, {FALSE}) : c.enable_cache /\ ~c.direct_sql },
             { <<SqlA>> },
             { Pool({BenignQuery}, {"Exception"}, DictResults, SingleCall) }, { EmptyDict },
             Wirings({FALSE}, {"steps"}), NewCache, { NoCalls(OneAgent) })

\* An LLM that may answer None instead of a code, and either supplied cache,
\* for the behaviours that study the steps built with a skip_if predicate.
InitSkip ==
    InitWith({ c \in Configs(0..1, {"standard"}, {FALSE}) : ~c.direct_sql },
             { <<SqlA, SqlB>> },
             { [Pool({BenignQuery}, {"Exception"}, {"valid"}, SingleCall)
                   EXCEPT !.codes = {None, "c1"}] },
             { EmptyDict }, Wirings({FALSE}, {"steps"}), SuppliedCaches, Sequential)

\* The stages whose step is built without an on_retry hook and has no failure
\* of its own in the steps below.
FaultStages == {"lookup", "prompt", "populate", "resval", "parse", "ec_prompt"}

\* Every step may raise, for the behaviours that study the failure of a step
\* built without an on_retry hook.
InitFaults ==
    InitWith(Configs(0..1, {"standard"}, {FALSE}), { <<SqlA, SqlB>> },
             { [Pool({BenignQuery}, {"Exception"}, {"valid"}, SingleCall)
                   EXCEPT !.codes = {"c1"}, !.faults = FaultStages] },
             { EmptyDict }, Wirings({FALSE}, {"steps"}), NewCache, Sequential)

\* Codes that may fail to be cleaned and to run, with up to two correction
\* cycles, for the behaviours that study what the tracker records.
InitTracker ==
    InitWith({ c \in Configs(0..2, {"standard"}, {FALSE}) : ~c.enable_cache /\ ~c.direct_sql },
             { <<SqlA, SqlB>> },
             { [Pool({BenignQuery}, {"Exception", "InvalidLLMOutputType"}, {"valid"}, SingleCall)
                   EXCEPT !.codes = {"c1", "c2"}] },
             { EmptyDict }, Wirings({FALSE}, {"steps"}), NewCache, Sequential)

\* Every log-server setting and every answer of the collector, over
\* consecutive calls, for the behaviours that study the published traces.
InitPublish ==
    InitWith({ c \in Configs({1}, {"standard"}, {FALSE}) : ~c.enable_cache /\ ~c.direct_sql },
             { <<SqlA, SqlB>> },
             { [Pool({BenignQuery}, {"Exception"}, {"valid"}, MaxRuns)
                   EXCEPT !.codes = {"c1"}, !.log = log, !.answers = Answers] :
               log \in LogServers },
             { EmptyDict }, Wirings({FALSE}, {"steps"}), NewCache, Sequential)

\* Every retry limit, with the error-correction framework on or off, for the
\* behaviours that study call_llm_with_prompt.
InitPrompt ==
    /\ InitContext(Configs(Retries, {"standard"}, {FALSE}), { <<SqlA>> },
                   { Pool({BenignQuery}, {"Exception"}, {"valid"}, SingleCall) },
                   { EmptyDict }, Wirings({FALSE}, {"steps"}), NewCache, Sequential)
    /\ prompt_call \in { NoPromptCall(u) : u \in BOOLEAN }

\* An agent without a pipeline, with the pipeline Agent.__init__ builds, or
\* with a pipeline that has a tracker, for the behaviours that study the
\* agent's entry points.
InitAgent ==
    InitWith(Configs(0..1, {"standard"}, {FALSE}), { <<SqlA, SqlB>> },
             { Pool({"avg", "os"}, {"Exception"}, DictResults, SingleCall) },
             { EmptyDict }, AgentWirings, NewCache, Sequential)

\* A pipeline with a judge, for the behaviours that study the judge loop of
\* one call.
InitJudge ==
    InitWith({ c \in Configs(Retries, {"standard"}, {FALSE}) : ~c.direct_sql },
             { <<SqlA, SqlB>> },
             { Pool({BenignQuery}, {"Exception"}, DictResults, 1) }, { EmptyDict },
             Wirings({TRUE}, {"steps", "class"}), NewCache, Sequential)

\* --------------------------------------------------------- PipelineContext
\* PipelineContext.get(key, default="")
get(key) == DictGet(intermediate_values, key, "")

\* intermediate_values and _initial_values are one dict object exactly when
\* the constructor was given a non-empty initial_values: `initial_values or {}`
\* then yields the object itself, and reset_intermediate_values rebinds
\* intermediate_values to it.
SameObject == DictTruthy(initial_values)

\* PipelineContext.reset_intermediate_values: the dict intermediate_values is
\* bound to afterwards.
reset_intermediate_values == IF DictTruthy(initial_values) THEN initial_values ELSE EmptyDict

\* A write to intermediate_values; it is seen through _initial_values when the
\* two are one object.
WriteIV(new) ==
    /\ intermediate_values' = new
    /\ initial_values' = (IF SameObject THEN new ELSE initial_values)

\* PipelineContext.add
add(key, value) == WriteIV(Put(intermediate_values, key, value))

\* ----------------------------------------------------------------- tracker
\* A start_new_track that keeps what the last run left in the tracker.
start_new_track_keeps(t, query) == [t EXCEPT !.started = TRUE, !.query_info = query]

\* QueryExecTracker.start_new_track: resets the per-run lists and
\* _last_log_id, and describes the new input; _success is not touched.
start_new_track(t, query) ==
    [t EXCEPT !.steps = << >>, !.started = TRUE, !.last_log_id = NoLogId,
              !.dataframes = 0, !.query_info = query]

\* QueryExecTracker.add_dataframes: one schema for each data source; `fails`
\* when get_schema raises at the first of them.
add_dataframes(t, ds, fails) ==
    [t EXCEPT !.dataframes = IF fails THEN @ ELSE @ + Len(ds)]

\* QueryExecTracker.add_step
add_step(t, step) == [t EXCEPT !.steps = Append(@, step)]

\* ------------------------------------------------------------------- cache
\* Cache.get_cache_key(context): the fingerprint of the query, the config and
\* the conversation memory; the config is fixed and the query is the last
\* message of the conversation.
get_cache_key == memory

\* Cache.get(key): the stored value or None.
cache_get(key) == DictGet(cache, key, None)

\* ------------------------------------------------- GenerateChatPipeline hooks
\* A skip condition that never skips.
is_cached_never == FALSE

\* GenerateChatPipeline.is_cached
is_cached == Truthy(get("found_in_cache"))

\* GenerateChatPipeline.no_code
no_code == get("last_code_generated") = None

\* A pipeline whose every step has a retry hook.
has_on_retry_everywhere(stage) == TRUE

\* The steps that GenerateChatPipeline.__init__ and ErrorCorrectionPipeline.__init__
\* build with an on_retry hook: the main CodeCleaning and CodeExecution. The
\* CodeCleaning nested in the error-correction pipeline has none.
has_on_retry(stage) == stage \in {"clean", "exec"}

\* The stage after CodeCleaning: run chains the execution pipeline, or goes
\* through the judge loop first when a judge was given; run_generate_code
\* returns.
AfterGeneration ==
    IF entry = "run" THEN (IF wiring.judge THEN "judge" ELSE "exec") ELSE "finish"

StageName(stage) == IF stage = "clean" THEN "CodeCleaning" ELSE "CodeExecution"

\* The step record that on_code_cleaning_failure / on_code_execution_failure
\* build from the code and the exception they are called with.
failure_step(stage, code, errors) ==
    [ type |-> StageName(stage),
      success |-> FALSE,
      message |-> (IF stage = "clean" THEN "Failed to clean code"
                                      ELSE "Failed to execute code"),
      execution_time |-> None,
      data |-> [content_type |-> "code", value |-> code, exception |-> errors] ]

\* What the tracker of the model keeps of a step record: its type and its
\* success flag.
Brief(step) == <<step.type, step.success>>

\* A failure hook that records nothing.
on_failure_silent(t, stage, code, errors) == t

\* on_code_cleaning_failure / on_code_execution_failure: one failure record,
\* added with tracker.add_step.
on_failure(t, stage, code, errors) ==
    add_step(t, Brief(failure_step(stage, code, errors)))

\* A retry hook that hands the failed code back as it is, without running the
\* error-correction pipeline.
on_code_retry_noop(stage, exc, o) ==
    /\ pc' = stage
    /\ err' = None
    /\ retStage' = stage
    /\ obs' = o
    /\ UNCHANGED data

\* A retry hook after which the run starts again from its first step.
on_code_retry_restarts(stage, exc, o) ==
    /\ pc' = "ec_prompt"
    /\ data' = <<"ecinput", data[2]>>
    /\ err' = exc
    /\ retStage' = "validate"
    /\ obs' = Bump(o, IF stage = "clean" THEN "cleanCycles" ELSE "execCycles")

\* GenerateChatPipeline.on_code_retry: runs the error-correction pipeline on
\* (code, exception); o is the call's observations so far.
on_code_retry(stage, exc, o) ==
    /\ pc' = "ec_prompt"
    /\ data' = <<"ecinput", data[2]>>
    /\ err' = exc
    /\ retStage' = stage
    /\ obs' = Bump(o, IF stage = "clean" THEN "cleanCycles" ELSE "execCycles")

\* A retry budget counted for each stage on its own.
RetryAllowedPerStage ==
    (IF pc = "clean" THEN obs.cleanCycles ELSE obs.execCycles) < config.max_retries

\* The retry budget of a run: one attempt counter for all stages.
RetryAllowed == retry_count < config.max_retries

\* An exception leaves a step that has no on_retry hook, or the budget is
\* spent: it propagates to the entry point's except clause.
Propagate(exc, o) ==
    /\ pc' = "except"
    /\ err' = exc
    /\ obs' = o
    /\ UNCHANGED << data, retStage >>

\* Pipeline.run on an exception of the step at `stage`: on_failure, then
\* on_retry while the budget lasts.
StepFailed(stage, exc, o) ==
    LET failed == [o EXCEPT !.failure = failure_step(stage, data[2], exc)]
    IN  /\ tracker' = on_failure(tracker, stage, data[2], exc)
        /\ IF has_on_retry(stage) /\ RetryAllowed
           THEN /\ retry_count' = retry_count + 1
                /\ on_code_retry(stage, exc, failed)
           ELSE /\ Propagate(exc, failed)
                /\ UNCHANGED retry_count

\* Pipeline.run on an exception raised by the step the call is at, for the
\* steps built without hooks: no on_failure record, and the exception
\* propagates because the step has no on_retry.
StepRaises ==
    /\ pc \in pool.faults
    /\ ~(pc \in {"prompt", "populate"} /\ is_cached)
    /\ IF has_on_retry(pc) /\ RetryAllowed
       THEN /\ retry_count' = retry_count + 1
            /\ on_code_retry(pc, "StepError", [obs EXCEPT !.otherFail = TRUE])
       ELSE /\ Propagate("StepError", [obs EXCEPT !.otherFail = TRUE])
            /\ UNCHANGED retry_count
    /\ UNCHANGED << ctxVars, judge_retry_count, initial_values, intermediate_values,
                    memory, cache_present, cache, tracker, entry, last_error,
                    result, prev >>

\* ------------------------------------------------------------ entry points
Ready == pc \in {"idle", "done"} /\ prev.runs < pool.calls

\* A count kept as none, one or more than one.
UpToTwo(n) == IF n > 1 THEN 2 ELSE n

\* What is remembered of the call that just ended when the next one begins;
\* its LLM calls are remembered as none, one or more than one.
Remember ==
    [ runs |-> prev.runs + 1, key |-> obs.key, stored |-> obs.stored,
      gen |-> obs.gen, llm |-> UpToTwo(obs.llm), wasRun |-> (entry = "run" /\ obs.began),
      log_id |-> tracker.last_log_id ]

\* An entry point that sends every call through the generation steps.
EntryStageThroughGeneration(e) == "try"

\* Where the try block of an entry point starts: run_execute_code calls the
\* execution pipeline on the caller's code, run and run_generate_code call
\* through code_generation_pipeline.
EntryStage(e) == IF e = "run_execute_code" THEN "exec" ELSE "try"

\* The code before the try block of run, run_generate_code and
\* run_execute_code: reset_intermediate_values, tracker.start_new_track,
\* add_skills, add_dataframes, memory.add, context.add_many. `fails` is an
\* exception raised by tracker.add_dataframes (df.get_schema of a connector).
Preamble(e, text, ot, verdict, fails) ==
    LET r == reset_intermediate_values
        new == Update(r, [output_type |-> ot, last_prompt_id |-> "p1"])
    IN  /\ entry' = e
        /\ prev' = Remember
        /\ tracker' = IF wiring.pipeline = "untracked" THEN tracker
                       ELSE add_dataframes(start_new_track(tracker, text), dfs, fails)
        /\ result' = NoResult
        /\ retry_count' = 0
        /\ judge_retry_count' = 0
        /\ retStage' = "none"
        /\ IF wiring.pipeline = "untracked" \/ fails
           THEN /\ intermediate_values' = r
                /\ pc' = "raised"
                /\ err' = (IF wiring.pipeline = "untracked" THEN "AttributeError"
                                                            ELSE "SchemaError")
                /\ data' = NoData
                /\ obs' = [FreshObs EXCEPT !.ivAfterReset = r, !.arg = text,
                                           !.verdict = verdict]
                /\ UNCHANGED << initial_values, memory >>
           ELSE /\ intermediate_values' = new
                /\ initial_values' = (IF SameObject THEN new ELSE initial_values)
                /\ memory' = Append(memory, <<text, TRUE>>)
                /\ pc' = EntryStage(e)
                /\ data' = (IF e = "run_execute_code" THEN <<"code", text>> ELSE <<"input", text>>)
                /\ err' = None
                /\ obs' = [FreshObs EXCEPT !.ivAfterReset = r, !.began = TRUE,
                                           !.key = Append(memory, <<text, TRUE>>),
                                           !.arg = text, !.verdict = verdict]
        /\ UNCHANGED << ctxVars, cache_present, cache, last_error >>

\* `self.security and self.security.evaluate(query)`: the agent's verdict when
\* the agent has a security agent, false when it has none.
Verdict(verdict) == config.security_agent /\ verdict

\* BaseAgent.chat refuses the query: the keyword check under the "standard"
\* and "advanced" security levels, or the security agent's verdict.
Refused(q, verdict) ==
    \/ config.security \in {"standard", "advanced"}
          /\ check_malicious_keywords_in_query(QueryText(q))
    \/ Verdict(verdict)

\* `if not self.pipeline: return ...`: the error string is returned before
\* anything else is done.
NoPipeline(text) ==
    /\ entry' = "no_pipeline"
    /\ prev' = Remember
    /\ result' = <<"agent_error", "error", "No pipeline exists">>
    /\ pc' = "done"
    /\ obs' = [FreshObs EXCEPT !.arg = text]
    /\ UNCHANGED << ctxVars, judge_retry_count, initial_values, intermediate_values, memory,
                    cache_present, cache, tracker, data, err, retStage,
                    retry_count, last_error >>

\* BaseAgent.chat: MaliciousQueryError is raised and caught inside chat, which
\* returns its error string; otherwise pipeline.run(pipeline_input).
chat(q, verdict, fails) ==
    /\ Ready
    /\ IF wiring.pipeline = "none" THEN NoPipeline(q)
       ELSE IF Refused(q, verdict)
       THEN /\ entry' = "chat_refused"
            /\ prev' = Remember
            /\ result' = <<"agent_error", "error", "MaliciousQueryError">>
            /\ pc' = "done"
            /\ obs' = [FreshObs EXCEPT !.arg = q, !.verdict = Verdict(verdict)]
            /\ UNCHANGED << ctxVars, judge_retry_count, initial_values, intermediate_values, memory,
                            cache_present, cache, tracker, data, err, retStage,
                            retry_count, last_error >>
       ELSE Preamble("run", q, CHOOSE ot \in OutputTypes : TRUE, Verdict(verdict), fails)

\* BaseAgent.generate_code: pipeline.run_generate_code(pipeline_input).
generate_code(q, fails) ==
    /\ Ready
    /\ IF wiring.pipeline = "none" THEN NoPipeline(q)
       ELSE Preamble("run_generate_code", q, CHOOSE ot \in OutputTypes : TRUE, FALSE, fails)

\* BaseAgent.execute_code: pipeline.run_execute_code(pipeline_input).
execute_code(code, fails) ==
    /\ Ready
    /\ IF wiring.pipeline = "none" THEN NoPipeline(code)
       ELSE Preamble("run_execute_code", code, CHOOSE ot \in OutputTypes : TRUE, FALSE, fails)

\* BaseAgent.clear_memory
clear_memory ==
    /\ pc \in {"idle", "done"}
    /\ memory # << >>
    /\ memory' = << >>
    /\ UNCHANGED << ctxVars, judge_retry_count, initial_values, intermediate_values, cache_present,
                    cache, tracker, pc, entry, data, err, retStage, retry_count,
                    last_error, result, obs, prev >>

\* An except clause that lets the exception of a pipeline without a tracker
\* through.
IsPipelineException(e) == e # "AttributeError"

\* `except Exception`: what the preamble, a step, a hook or publish raises is
\* an Exception, whatever its class.
IsException(e) == e # None

\* The except clause of BaseAgent.chat / generate_code / execute_code around
\* the pipeline call.
AgentCatch ==
    /\ pc = "raised"
    /\ IF IsException(err)
       THEN pc' = "done" /\ result' = <<"agent_error", "error", err>>
       ELSE pc' = "escaped" /\ UNCHANGED result
    /\ UNCHANGED << ctxVars, judge_retry_count, initial_values, intermediate_values, memory,
                    cache_present, cache, tracker, entry, data, err, retStage,
                    retry_count, last_error, obs, prev >>

\* QueryExecTracker.publish, as seen by the call: one more publish, with the
\* success flag it reads.
publish(o, success) == [o EXCEPT !.published = @ + 1, !.successAtPublish = success]

\* The api_key publish resolves: without a server_config the environment
\* variable, an empty one counting as none; with a server_config its api_key
\* entry, or the environment variable when it has none.
api_key(log) ==
    IF ~log.given
    THEN (IF Truthy(log.env) THEN log.env ELSE None)
    ELSE DictGet(log.server_config, "api_key", log.env)

\* The try block of publish: get_summary raises when tracking has not started,
\* requests.post raises on a transport error, a status other than 200 raises,
\* json.loads raises on a body that is no JSON, and _last_log_id is assigned
\* when the body has a data that is not None. `posts` is 1 when the request
\* was made.
publish_try(t, answer, id) ==
    IF ~t.started
    THEN [tracker |-> t, posts |-> 0, raised |-> TRUE]
    ELSE IF answer \in {"transport_error", "status_500", "bad_json", "no_log_id"}
         THEN [tracker |-> t, posts |-> 1, raised |-> TRUE]
         ELSE IF answer = "data"
              THEN [tracker |-> [t EXCEPT !.last_log_id = id], posts |-> 1, raised |-> FALSE]
              ELSE [tracker |-> t, posts |-> 1, raised |-> FALSE]

\* A publish without its except clause.
tracker_publish_raising(t, log, answer, id) ==
    IF api_key(log) = None
    THEN [tracker |-> t, posts |-> 0, raised |-> FALSE]
    ELSE publish_try(t, answer, id)

\* QueryExecTracker.publish: returns at once when api_key is None; otherwise
\* runs the try block, and the except clause swallows what it raises.
tracker_publish(t, log, answer, id) ==
    IF api_key(log) = None
    THEN [tracker |-> t, posts |-> 0, raised |-> FALSE]
    ELSE [publish_try(t, answer, id) EXCEPT !.raised = FALSE]

\* GenerateChatPipeline.get_last_track_log_id
get_last_track_log_id == tracker.last_log_id

\* The identifier the collector gives to the trace of the call in progress.
LogId == prev.runs

\* What the call has seen of a publish: p is what publish did.
Published(o, success, p, answer) ==
    [publish(o, success) EXCEPT
        !.posts = @ + p.posts,
        !.answer = IF p.posts = 1 THEN answer ELSE @,
        !.sentSteps = IF p.posts = 1 THEN p.tracker.steps ELSE @]

\* An end of the try block that forgets tracker.success = True.
FinishWithoutSuccess(answer) ==
    LET p == tracker_publish(tracker, pool.log, answer, LogId)
    IN  /\ pc = "finish"
        /\ tracker' = p.tracker
        /\ obs' = Published(obs, tracker.success, p, answer)
        /\ IF p.raised
           THEN pc' = "except" /\ err' = "PublishError" /\ UNCHANGED result
           ELSE pc' = "done" /\ result' = <<"output", data[1], data[2]>> /\ UNCHANGED err
        /\ UNCHANGED << ctxVars, judge_retry_count, initial_values, intermediate_values,
                        memory, cache_present, cache, entry, data, retStage,
                        retry_count, last_error, prev >>

\* The end of the try block: tracker.success = True, publish, return output.
\* An exception of publish would be caught by the except clause.
Finish(answer) ==
    LET p == tracker_publish([tracker EXCEPT !.success = TRUE], pool.log, answer, LogId)
    IN  /\ pc = "finish"
        /\ tracker' = p.tracker
        /\ obs' = Published(obs, TRUE, p, answer)
        /\ IF p.raised
           THEN pc' = "except" /\ err' = "PublishError" /\ UNCHANGED result
           ELSE pc' = "done" /\ result' = <<"output", data[1], data[2]>> /\ UNCHANGED err
        /\ UNCHANGED << ctxVars, judge_retry_count, initial_values, intermediate_values,
                        memory, cache_present, cache, entry, data, retStage,
                        retry_count, last_error, prev >>

\* The except clause of the entry points: last_error, tracker.success = False,
\* publish, return the error string. An exception of publish would leave the
\* entry point.
Catch(answer) ==
    LET p == tracker_publish([tracker EXCEPT !.success = FALSE], pool.log, answer, LogId)
    IN  /\ pc = "except"
        /\ last_error' = err
        /\ tracker' = p.tracker
        /\ obs' = Published(obs, FALSE, p, answer)
        /\ IF p.raised
           THEN pc' = "raised" /\ err' = "PublishError" /\ UNCHANGED result
           ELSE pc' = "done" /\ result' = <<"error_string", "error", err>> /\ UNCHANGED err
        /\ UNCHANGED << ctxVars, judge_retry_count, initial_values, intermediate_values,
                        memory, cache_present, cache, entry, data, retStage,
                        retry_count, prev >>

\* tracker.publish() called by the holder of the tracker while no call is in
\* progress, at most once before the first call and once after each call.
TrackerPublish(answer) ==
    LET p == tracker_publish(tracker, pool.log, answer, LogId)
    IN  /\ pc \in {"idle", "done"}
        /\ obs.published < 2
        /\ tracker' = p.tracker
        /\ obs' = Published(obs, tracker.success, p, answer)
        /\ IF p.raised
           THEN pc' = "raised" /\ err' = "PublishError"
           ELSE UNCHANGED << pc, err >>
        /\ UNCHANGED << ctxVars, judge_retry_count, initial_values, intermediate_values,
                        memory, cache_present, cache, entry, data, retStage,
                        retry_count, last_error, result, prev >>

\* -------------------------------------------------------- generation steps
\* The first statement of the try block of run and run_generate_code: the call
\* through self.code_generation_pipeline (its run, or its composition with the
\* execution pipeline). On the class it raises inside the try block.
EnterGeneration ==
    /\ pc = "try"
    /\ IF wiring.code_generation_pipeline = "class"
       THEN Propagate("TypeError", obs)
       ELSE /\ pc' = "validate"
            /\ UNCHANGED << data, err, retStage, obs >>
    /\ UNCHANGED << ctxVars, judge_retry_count, initial_values, intermediate_values,
                    memory, cache_present, cache, tracker, entry, retry_count,
                    last_error, result, prev >>

\* A judge loop that regenerates for as long as the judge rejects.
JudgeGateUnbounded(accepts) ==
    /\ pc = "judge"
    /\ IF accepts
       THEN /\ pc' = "exec"
            /\ obs' = Bump(obs, "evals")
            /\ UNCHANGED << data, judge_retry_count >>
       ELSE /\ pc' = "validate"
            /\ data' = <<"input", obs.arg>>
            /\ judge_retry_count' = (judge_retry_count + 1) % (MaxRetriesBound + 2)
            /\ obs' = [obs EXCEPT !.evals = (@ + 1) % (MaxRetriesBound + 2),
                                  !.regens = (@ + 1) % (MaxRetriesBound + 2)]
    /\ UNCHANGED << ctxVars, initial_values, intermediate_values, memory,
                    cache_present, cache, tracker, entry, err, retStage,
                    retry_count, last_error, result, prev >>

\* The judge loop of run: while retry_count < max_retries, judge.evaluate on
\* the candidate; accepted, or the loop exhausted, the execution pipeline runs
\* on the candidate; rejected, the generation pipeline runs again on the input
\* and retry_count grows by one.
JudgeGate(accepts) ==
    /\ pc = "judge"
    /\ IF judge_retry_count < config.max_retries
       THEN IF accepts
            THEN /\ pc' = "exec"
                 /\ obs' = Bump(obs, "evals")
                 /\ UNCHANGED << data, judge_retry_count >>
            ELSE /\ pc' = "validate"
                 /\ data' = <<"input", obs.arg>>
                 /\ judge_retry_count' = judge_retry_count + 1
                 /\ obs' = Bump(Bump(obs, "evals"), "regens")
       ELSE /\ pc' = "exec"
            /\ UNCHANGED << data, judge_retry_count, obs >>
    /\ UNCHANGED << ctxVars, initial_values, intermediate_values, memory,
                    cache_present, cache, tracker, entry, err, retStage,
                    retry_count, last_error, result, prev >>

\* A step returned a LogicUnitOutput: Pipeline.run records it in the tracker.
Record(name, success) == add_step(tracker, <<name, success>>)

\* ValidatePipelineInput.execute
ValidatePipelineInput ==
    /\ pc = "validate"
    /\ IF validate_direct_sql_raises(config, dfs)
       THEN /\ Propagate("InvalidConfigError", [Bump(obs, "validated") EXCEPT !.otherFail = TRUE])
            /\ UNCHANGED tracker
       ELSE /\ pc' = "lookup"
            /\ tracker' = Record("ValidatePipelineInput", TRUE)
            /\ obs' = Bump(obs, "validated")
            /\ UNCHANGED << data, err, retStage >>
    /\ UNCHANGED << ctxVars, judge_retry_count, initial_values, intermediate_values, memory,
                    cache_present, cache, entry, retry_count, last_error,
                    result, prev >>

\* A lookup that never finds anything.
CacheMiss == FALSE

\* The condition of CacheLookup.execute: caching is on, the context holds a
\* cache and the cache has a truthy value under the key.
CacheHit ==
    config.enable_cache /\ cache_present /\ Truthy(cache_get(get_cache_key))

\* The cache.get calls of a lookup that misses: the condition reads the cache
\* only when caching is on and the context holds a cache.
CacheReadsOnMiss == IF config.enable_cache /\ cache_present THEN 1 ELSE 0

\* CacheLookup.execute: on a hit it fetches the code again, sets
\* found_in_cache and returns the code; on a miss it returns None.
CacheLookup ==
    /\ pc = "lookup"
    /\ pc' = "prompt"
    /\ IF CacheHit
       THEN /\ add("found_in_cache", True)
            /\ data' = <<"code", cache_get(get_cache_key)>>
            /\ tracker' = Record("CacheLookup", TRUE)
            /\ obs' = [Bump(obs, "lookups") EXCEPT !.hit = TRUE,
                                                     !.hitCode = cache_get(get_cache_key),
                                                     !.reads = @ + 2]
       ELSE /\ data' = NoData
            /\ obs' = [Bump(obs, "lookups") EXCEPT !.reads = @ + CacheReadsOnMiss]
            /\ UNCHANGED << initial_values, intermediate_values, tracker >>
    /\ UNCHANGED << ctxVars, judge_retry_count, memory, cache_present, cache, entry, err, retStage,
                    retry_count, last_error, result, prev >>

\* PromptGeneration.get_chat_prompt: the prompt class.
get_chat_prompt ==
    IF config.direct_sql THEN "GeneratePythonCodeWithSQLPrompt" ELSE "GeneratePythonCodePrompt"

\* PromptGeneration (skip_if = is_cached)
PromptGeneration ==
    /\ pc = "prompt"
    /\ pc' = "codegen"
    /\ IF is_cached
       THEN UNCHANGED << data, tracker, obs >>
       ELSE /\ data' = <<"prompt", get_chat_prompt>>
            /\ tracker' = Record("PromptGeneration", TRUE)
            /\ obs' = Bump(obs, "prompt")
    /\ UNCHANGED << ctxVars, judge_retry_count, initial_values, intermediate_values, memory,
                    cache_present, cache, entry, err, retStage, retry_count,
                    last_error, result, prev >>

\* What config.llm.generate_code may do: return a code or raise.
LlmOutcomes == pool.codes \cup {"raise"}

\* CodeGenerator.execute with the LLM's outcome: one LLM call; the code is
\* stored as last_code_generated and returned. o counts the call.
CodeGeneratorExecute(outcome, o, next) ==
    IF outcome = "raise"
    THEN /\ Propagate("LLMError", [o EXCEPT !.otherFail = TRUE])
         /\ UNCHANGED << initial_values, intermediate_values, tracker >>
    ELSE /\ add("last_code_generated", outcome)
         /\ data' = <<"code", outcome>>
         /\ tracker' = Record("CodeGenerator", TRUE)
         /\ obs' = o
         /\ pc' = next
         /\ UNCHANGED << err, retStage >>

\* CodeGenerator of the main pipeline (skip_if = is_cached)
CodeGenerator(outcome) ==
    /\ pc = "codegen"
    /\ IF is_cached
       THEN /\ pc' = "populate"
            /\ UNCHANGED << data, tracker, obs, err, retStage, initial_values,
                            intermediate_values >>
       ELSE CodeGeneratorExecute(outcome, Bump(Bump(obs, "llm"), "gen"), "populate")
    /\ UNCHANGED << ctxVars, judge_retry_count, memory, cache_present, cache, entry, retry_count,
                    last_error, result, prev >>

\* CachePopulation (skip_if = is_cached): writes the code under the key.
CachePopulation ==
    /\ pc = "populate"
    /\ pc' = "clean"
    /\ IF ~is_cached /\ config.enable_cache /\ cache_present
       THEN /\ cache' = Put(cache, get_cache_key, data[2])
            /\ obs' = [Bump(obs, "pop") EXCEPT !.stored = data[2]]
       ELSE UNCHANGED << cache, obs >>
    /\ tracker' = (IF is_cached THEN tracker ELSE Record("CachePopulation", TRUE))
    /\ UNCHANGED << ctxVars, judge_retry_count, initial_values, intermediate_values, memory,
                    cache_present, entry, data, err, retStage, retry_count,
                    last_error, result, prev >>

\* What CodeCleaning may do with a code: return the cleaned code or raise.
\* A value that is no code cannot be cleaned.
CleaningOutcomes(d) == IF d[1] \in {"code", "cleaned"} THEN {"ok", "raise"} ELSE {"raise"}

\* CodeCleaning of the main pipeline (skip_if = no_code, on_failure, on_retry)
CodeCleaning(outcome) ==
    /\ pc = "clean"
    /\ outcome \in CleaningOutcomes(data)
    /\ LET o == IF obs.cleanFails = 0 THEN [obs EXCEPT !.cleanIn = data] ELSE obs
       IN  IF no_code
           THEN /\ pc' = AfterGeneration
                /\ obs' = [obs EXCEPT !.candidate = data]
                /\ UNCHANGED << data, tracker, err, retStage, retry_count >>
           ELSE IF outcome = "ok"
                THEN /\ pc' = AfterGeneration
                     /\ data' = <<"cleaned", data[2]>>
                     /\ tracker' = Record("CodeCleaning", TRUE)
                     /\ obs' = [o EXCEPT !.candidate = <<"cleaned", data[2]>>]
                     /\ UNCHANGED << err, retStage, retry_count >>
                ELSE StepFailed("clean", "Exception", Bump(o, "cleanFails"))
    /\ UNCHANGED << ctxVars, judge_retry_count, initial_values, intermediate_values, memory,
                    cache_present, cache, entry, last_error, result, prev >>

\* --------------------------------------------------------- execution steps
\* What running a code may do: return a result whose type is or is not the
\* requested output type, or raise. A value that is no code cannot be run.
ExecOutcomes(d) ==
    IF d[1] \in {"code", "cleaned"} THEN pool.results \cup pool.kinds
    ELSE {"Exception"}

\* What the first attempt of CodeExecution received in this call: the output
\* of the generation steps, or the code the caller passed to run_execute_code.
FirstInput(d) ==
    IF obs.execFails = 0 /\ obs.execOk = 0
    THEN IF obs.candidate # NoData /\ d = obs.candidate THEN "candidate"
         ELSE IF d = <<"code", obs.arg>> THEN "caller"
         ELSE "other"
    ELSE obs.execFrom

\* CodeExecution (on_failure, on_retry)
CodeExecution(outcome) ==
    /\ pc = "exec"
    /\ outcome \in ExecOutcomes(data)
    /\ IF outcome \in ResultKinds
       THEN /\ pc' = "resval"
            /\ data' = <<"result", outcome>>
            /\ tracker' = Record("CodeExecution", TRUE)
            /\ obs' = [Bump(obs, "execOk") EXCEPT !.executed = data,
                                                    !.execFrom = FirstInput(data),
                                                    !.candidate = NoData]
            /\ UNCHANGED << err, retStage, retry_count >>
       ELSE StepFailed("exec", outcome,
                       [Bump(obs, "execFails") EXCEPT !.firstExecFailed =
                            (@ \/ (obs.execFails = 0 /\ obs.execOk = 0)),
                                                      !.execFrom = FirstInput(data),
                                                      !.candidate = NoData])
    /\ UNCHANGED << ctxVars, judge_retry_count, initial_values, intermediate_values, memory,
                    cache_present, cache, entry, last_error, result, prev >>

\* OutputValidator.validate(output_type, result)
validation_ok(r) == r = "valid"

\* A validation step that reports success whatever the validator says.
result_validation_hides_mismatch(r) ==
    [value |-> r, success |-> TRUE, message |-> "Output Validation Successful"]

\* The LogicUnitOutput of ResultValidation.execute: the input unchanged;
\* success and message record the validator's verdict on a dict, and stay
\* False and None for None and for a value that is no dict.
result_validation(r) ==
    IF r \in DictResults
    THEN IF validation_ok(r)
         THEN [value |-> r, success |-> TRUE, message |-> "Output Validation Successful"]
         ELSE [value |-> r, success |-> FALSE, message |-> "Output Validation Failed"]
    ELSE [value |-> r, success |-> FALSE, message |-> None]

\* ResultValidation.execute: the result is passed on whatever the validation
\* says; a result that is not None is stored as last_result.
ResultValidation ==
    /\ pc = "resval"
    /\ pc' = "parse"
    /\ IF data[2] # "none"
       THEN add("last_result", data[2])
       ELSE UNCHANGED << initial_values, intermediate_values >>
    /\ data' = <<"result", result_validation(data[2]).value>>
    /\ tracker' = Record("ResultValidation", result_validation(data[2]).success)
    /\ obs' = [Bump(obs, "resval") EXCEPT !.rvIn = data[2], !.rv = result_validation(data[2])]
    /\ UNCHANGED << ctxVars, judge_retry_count, memory, cache_present, cache, entry, err,
                    retStage, retry_count, last_error, result, prev >>

\* ResultParsing: shapes the result into the response.
ResultParsing ==
    /\ pc = "parse"
    /\ pc' = "finish"
    /\ data' = <<"parsed", data[2]>>
    /\ tracker' = Record("ResultParsing", TRUE)
    /\ obs' = Bump(obs, "parsed")
    /\ UNCHANGED << ctxVars, judge_retry_count, initial_values, intermediate_values, memory,
                    cache_present, cache, entry, err, retStage, retry_count,
                    last_error, result, prev >>

\* ------------------------------------------------ error-correction pipeline
\* A prompt generation that uses the generic template for every exception.
get_prompt_generic(e, code) == [template |-> "CorrectErrorPrompt", code |-> code]

\* ErrorPromptGeneration.get_prompt: the prompt class for the exception, built
\* with the code of the correction input.
get_prompt(e, code) ==
    IF e = "InvalidLLMOutputType"
    THEN [template |-> "CorrectOutputTypeErrorPrompt", code |-> code]
    ELSE IF e = "ExecuteSQLQueryNotUsed"
         THEN [template |-> "CorrectExecuteSQLQueryUsageErrorPrompt", code |-> code]
         ELSE [template |-> "CorrectErrorPrompt", code |-> code]

\* ErrorPromptGeneration.execute
ErrorPromptGeneration ==
    /\ pc = "ec_prompt"
    /\ pc' = "ec_codegen"
    /\ data' = <<"prompt", get_prompt(err, data[2]).template>>
    /\ err' = None
    /\ tracker' = Record("ErrorPromptGeneration", TRUE)
    /\ obs' = [Bump(obs, "ecPrompts") EXCEPT !.ecPrompt = get_prompt(err, data[2]),
                                             !.ecFor = <<err, data[2]>>,
                                             !.failure = NoFailure]
    /\ UNCHANGED << ctxVars, judge_retry_count, initial_values, intermediate_values, memory,
                    cache_present, cache, entry, retStage, retry_count,
                    last_error, result, prev >>

\* CodeGenerator of the error-correction pipeline (no skip_if).
ErrorCodeGenerator(outcome) ==
    /\ pc = "ec_codegen"
    /\ CodeGeneratorExecute(outcome,
                            [Bump(Bump(obs, "llm"), "ecLlm") EXCEPT !.ecPrompt = NoPrompt,
                                                                    !.ecFor = NoData],
                            "ec_clean")
    /\ UNCHANGED << ctxVars, judge_retry_count, memory, cache_present, cache, entry, retry_count,
                    last_error, result, prev >>

\* CodeCleaning of the error-correction pipeline (no skip_if, no hooks): its
\* output is what on_code_retry returns, and the failed stage runs again on it.
ErrorCodeCleaning(outcome) ==
    /\ pc = "ec_clean"
    /\ outcome \in CleaningOutcomes(data)
    /\ IF outcome = "ok"
       THEN /\ pc' = retStage
            /\ data' = <<"cleaned", data[2]>>
            /\ tracker' = Record("CodeCleaning", TRUE)
            /\ obs' = [obs EXCEPT !.corrected = <<"cleaned", data[2]>>]
            /\ UNCHANGED << err, retStage >>
       ELSE /\ Propagate("Exception", [obs EXCEPT !.otherFail = TRUE])
            /\ UNCHANGED tracker
    /\ UNCHANGED << ctxVars, judge_retry_count, initial_values, intermediate_values, memory,
                    cache_present, cache, entry, retry_count, last_error,
                    result, prev >>

\* ------------------------------------------------- call_llm_with_prompt
callVars ==
    << config, dfs, pool, snapshot, wiring, inflight, judge_retry_count,
       initial_values, intermediate_values, memory, cache_present, cache,
       tracker, pc, entry, data, err, retStage, retry_count, last_error,
       result, obs, prev >>

\* What one call of config.llm.call(prompt) may give: a response that passes
\* prompt.validate, one that does not, or an exception of the LLM.
PromptOutcomes == {"valid", "invalid", "raise"}

\* BaseAgent.call_llm_with_prompt is called: retry_count = 0.
call_llm_with_prompt ==
    /\ prompt_call.pc = "idle"
    /\ prompt_call' = [prompt_call EXCEPT !.pc = "loop", !.retry_count = 0]
    /\ UNCHANGED callVars

\* The condition of the except clause under which the exception is raised
\* again: the framework is off, or this was the last attempt.
GivesUp(c) ==
    \/ ~c.use_error_correction_framework
    \/ c.retry_count >= config.max_retries - 1

\* One pass of the while loop: the LLM is called; a response that passes
\* prompt.validate is returned; a response that does not raises
\* InvalidLLMOutputType; the except clause raises again or counts a retry.
PromptAttempt(outcome) ==
    /\ prompt_call.pc = "loop"
    /\ prompt_call.retry_count < config.max_retries
    /\ LET called == [prompt_call EXCEPT !.calls = @ + 1]
           e == IF outcome = "invalid" THEN "InvalidLLMOutputType" ELSE "LLMError"
           failed == [called EXCEPT !.failed = @ + 1, !.last_failure = e]
       IN  prompt_call' =
             IF outcome = "valid"
             THEN [called EXCEPT !.pc = "returned", !.result = "response"]
             ELSE IF GivesUp(prompt_call)
                  THEN [failed EXCEPT !.pc = "raised", !.error = e]
                  ELSE [failed EXCEPT !.retry_count = @ + 1]
    /\ UNCHANGED callVars

\* The while condition is false: the function ends without a return
\* statement and its caller receives None.
PromptLoopEnds ==
    /\ prompt_call.pc = "loop"
    /\ ~(prompt_call.retry_count < config.max_retries)
    /\ prompt_call' = [prompt_call EXCEPT !.pc = "returned", !.result = None]
    /\ UNCHANGED callVars

\* -------------------------------------------------------- overlapping calls
\* The generation steps of a call, one caller at a time, on the context of the
\* caller's agent and on the cache the agents share.
CallOf(t) == inflight.th[t]
ContextOf(t) == inflight.contexts[inflight.ctx[t]]

seqVars ==
    << config, dfs, pool, snapshot, wiring, prompt_call, judge_retry_count, initial_values,
       intermediate_values, memory, cache_present, tracker, pc, entry, data,
       err, retStage, retry_count, last_error, result, obs, prev >>

\* A step of caller t: its new local state and the new context of its agent.
Move(t, call, context) ==
    inflight' = [inflight EXCEPT !.th[t] = call, !.contexts[inflight.ctx[t]] = context]

\* Pipeline.run records the step in the tracker of the caller's agent.
RecordFor(t, context, name) == [context EXCEPT !.steps = Append(@, <<t, name>>)]

\* A lookup that never finds anything under any key.
CacheHitForNever(key) == FALSE

\* The condition of CacheLookup.execute under a given key.
CacheHitFor(key) ==
    config.enable_cache /\ cache_present /\ Truthy(DictGet(cache, key, None))

\* is_cached on the context of the caller's agent.
is_cached_for(t) == Truthy(DictGet(ContextOf(t).intermediate_values, "found_in_cache", ""))

\* The code before the try block of run, on the context and tracker of the
\* caller's agent.
OverlapPreamble(t, q) ==
    /\ CallOf(t).pc = "idle"
    /\ Move(t, [IdleCall EXCEPT !.pc = "validate", !.data = <<"input", q>>,
                               !.wrote = [output_type |-> "number"]],
               [intermediate_values |-> [output_type |-> "number", last_prompt_id |-> "p1"],
                memory |-> Append(ContextOf(t).memory, <<q, TRUE>>),
                steps |-> << >>])
    /\ UNCHANGED << seqVars, cache >>

OverlapValidatePipelineInput(t) ==
    /\ CallOf(t).pc = "validate"
    /\ Move(t, [CallOf(t) EXCEPT !.pc = "lookup", !.recorded = @ + 1],
               RecordFor(t, ContextOf(t), "ValidatePipelineInput"))
    /\ UNCHANGED << seqVars, cache >>

\* The condition of CacheLookup.execute: the first cache.get, under the key
\* of the context as it is now. On a miss execute returns None.
OverlapCacheLookup(t) ==
    /\ CallOf(t).pc = "lookup"
    /\ LET key == ContextOf(t).memory
       IN  IF CacheHitFor(key)
           THEN Move(t, [CallOf(t) EXCEPT !.pc = "fetch", !.key = key,
                                          !.seen = DictGet(cache, key, None)],
                        ContextOf(t))
           ELSE Move(t, [CallOf(t) EXCEPT !.pc = "prompt", !.key = key, !.data = NoData,
                                          !.missed = TRUE],
                        ContextOf(t))
    /\ UNCHANGED << seqVars, cache >>

\* The body of the condition of CacheLookup.execute: the code is fetched with
\* a second cache.get, under the key of the context as it is now,
\* found_in_cache is set and the code is returned.
OverlapCacheFetch(t) ==
    /\ CallOf(t).pc = "fetch"
    /\ Move(t, [CallOf(t) EXCEPT !.pc = "prompt",
                                 !.data = <<"code", DictGet(cache, ContextOf(t).memory, None)>>,
                                 !.wrote = Put(@, "found_in_cache", True),
                                 !.recorded = @ + 1],
               RecordFor(t, [ContextOf(t) EXCEPT !.intermediate_values =
                                 Put(@, "found_in_cache", True)], "CacheLookup"))
    /\ UNCHANGED << seqVars, cache >>

OverlapPromptGeneration(t) ==
    /\ CallOf(t).pc = "prompt"
    /\ IF is_cached_for(t)
       THEN Move(t, [CallOf(t) EXCEPT !.pc = "codegen"], ContextOf(t))
       ELSE Move(t, [CallOf(t) EXCEPT !.pc = "codegen", !.recorded = @ + 1,
                                      !.data = <<"prompt", get_chat_prompt>>],
                    RecordFor(t, ContextOf(t), "PromptGeneration"))
    /\ UNCHANGED << seqVars, cache >>

OverlapCodeGenerator(t, code) ==
    /\ CallOf(t).pc = "codegen"
    /\ IF is_cached_for(t)
       THEN Move(t, [CallOf(t) EXCEPT !.pc = "populate"], ContextOf(t))
       ELSE Move(t, [CallOf(t) EXCEPT !.pc = "populate", !.recorded = @ + 1,
                                      !.data = <<"code", code>>,
                                      !.wrote = Put(@, "last_code_generated", code)],
                    RecordFor(t, [ContextOf(t) EXCEPT !.intermediate_values =
                                      Put(@, "last_code_generated", code)], "CodeGenerator"))
    /\ UNCHANGED << seqVars, cache >>

\* CachePopulation writes the code under the key of the context as it is now.
OverlapCachePopulation(t) ==
    /\ CallOf(t).pc = "populate"
    /\ LET key == ContextOf(t).memory
       IN  IF ~is_cached_for(t) /\ config.enable_cache /\ cache_present
           THEN /\ cache' = Put(cache, key, CallOf(t).data[2])
                /\ inflight' = [inflight EXCEPT
                       !.th[t] = [CallOf(t) EXCEPT !.pc = "finish", !.recorded = @ + 1,
                                                   !.stored = CallOf(t).data[2]],
                       !.contexts[inflight.ctx[t]] =
                            RecordFor(t, ContextOf(t), "CachePopulation"),
                       !.lastWriter = Put(@, key, t)]
           ELSE /\ Move(t, [CallOf(t) EXCEPT !.pc = "finish"], ContextOf(t))
                /\ UNCHANGED cache
    /\ UNCHANGED seqVars

\* The rest of the call: the code is cleaned and returned; a value that is no
\* code cannot be cleaned and the call ends with the error string.
OverlapFinish(t) ==
    /\ CallOf(t).pc = "finish"
    /\ Move(t, [CallOf(t) EXCEPT !.pc = "done",
                                 !.result = IF CallOf(t).data[1] = "code"
                                            THEN <<"output", CallOf(t).data[2]>>
                                            ELSE <<"error_string", "Exception">>],
               ContextOf(t))
    /\ UNCHANGED << seqVars, cache >>

\* A lookup under a key after the calls have ended.
LaterLookup(key) ==
    /\ \A t \in Threads : CallOf(t).pc = "done"
    /\ inflight.later = NoData
    /\ inflight' = [inflight EXCEPT !.later =
                       <<key, IF CacheHitFor(key) THEN DictGet(cache, key, None) ELSE None>>]
    /\ UNCHANGED << seqVars, cache >>

\* The queries of the overlapping calls and the codes the LLM answers with.
OverlapQueries == {"avg", "cost"}
OverlapCodes == {"c1", "c2"}
OverlapKeys == { << <<q, TRUE>> >> : q \in OverlapQueries }

NextOverlap ==
    \/ \E t \in Threads, q \in OverlapQueries : OverlapPreamble(t, q)
    \/ \E t \in Threads : OverlapValidatePipelineInput(t)
    \/ \E t \in Threads : OverlapCacheLookup(t)
    \/ \E t \in Threads : OverlapCacheFetch(t)
    \/ \E t \in Threads : OverlapPromptGeneration(t)
    \/ \E t \in Threads, code \in OverlapCodes : OverlapCodeGenerator(t, code)
    \/ \E t \in Threads : OverlapCachePopulation(t)
    \/ \E t \in Threads : OverlapFinish(t)
    \/ \E key \in OverlapKeys : LaterLookup(key)

\* Three agents handed one cache, called at once with one query.
NextLookup ==
    \/ \E t \in Callers : OverlapPreamble(t, "avg")
    \/ \E t \in Callers : OverlapValidatePipelineInput(t)
    \/ \E t \in Callers : OverlapCacheLookup(t)
    \/ \E t \in Callers : OverlapCacheFetch(t)
    \/ \E t \in Callers : OverlapPromptGeneration(t)
    \/ \E t \in Callers, code \in OverlapCodes : OverlapCodeGenerator(t, code)
    \/ \E t \in Callers : OverlapCachePopulation(t)
    \/ \E t \in Callers : OverlapFinish(t)

\* ------------------------------------------------------------ specification
\* The steps of the pipelines and the two ways a call ends.
Steps ==
    \/ EnterGeneration
    \/ ValidatePipelineInput
    \/ CacheLookup
    \/ PromptGeneration
    \/ \E outcome \in LlmOutcomes : CodeGenerator(outcome)
    \/ CachePopulation
    \/ \E outcome \in {"ok", "raise"} : CodeCleaning(outcome)
    \/ \E outcome \in ResultKinds \cup ExceptionKinds : CodeExecution(outcome)
    \/ ResultValidation
    \/ ResultParsing
    \/ ErrorPromptGeneration
    \/ \E outcome \in LlmOutcomes : ErrorCodeGenerator(outcome)
    \/ \E outcome \in {"ok", "raise"} : ErrorCodeCleaning(outcome)
    \/ \E answer \in pool.answers : Finish(answer)
    \/ \E answer \in pool.answers : Catch(answer)
    \/ AgentCatch

Next ==
    \/ \E q \in pool.queries, verdict \in BOOLEAN, fails \in BOOLEAN : chat(q, verdict, fails)
    \/ \E q \in pool.queries, fails \in BOOLEAN : generate_code(q, fails)
    \/ \E c \in CallerCodes, fails \in BOOLEAN : execute_code(c, fails)
    \/ clear_memory
    \/ Steps

Spec == Init /\ [][Next]_vars

\* Consecutive chat calls on one agent, with clear_memory between them.
NextRuns ==
    \/ \E q \in pool.queries, verdict \in BOOLEAN, fails \in BOOLEAN : chat(q, verdict, fails)
    \/ clear_memory
    \/ Steps

SpecRuns == InitRuns /\ [][NextRuns]_vars

SpecCache == InitCache /\ [][NextRuns]_vars

SpecValidation == InitValidation /\ [][Next]_vars

SpecSkip == InitSkip /\ [][Next]_vars

SpecAgent == InitAgent /\ [][Next]_vars

SpecTracker == InitTracker /\ [][Next]_vars

\* Consecutive chat calls, and publish called on the tracker between them.
NextPublish ==
    \/ \E q \in pool.queries, verdict \in BOOLEAN, fails \in BOOLEAN : chat(q, verdict, fails)
    \/ Steps
    \/ \E answer \in pool.answers : TrackerPublish(answer)

SpecPublish == InitPublish /\ [][NextPublish]_vars

\* The calls of an agent whose steps may raise.
NextFaults ==
    \/ Next
    \/ StepRaises

SpecFaults == InitFaults /\ [][NextFaults]_vars

SpecSharedCache == InitSharedCache /\ [][NextOverlap]_vars

SpecOneAgent == InitOneAgent /\ [][NextOverlap]_vars

SpecLookup == InitLookup /\ [][NextLookup]_vars

SpecDfs == InitDfs /\ [][Next]_vars

SpecSecurity == InitSecurity /\ [][Next]_vars

NextPrompt ==
    \/ call_llm_with_prompt
    \/ \E outcome \in PromptOutcomes : PromptAttempt(outcome)
    \/ PromptLoopEnds

SpecPrompt == InitPrompt /\ [][NextPrompt]_vars

\* Chat calls on an agent whose pipeline was given a judge. A call in
\* progress runs on: the interpreter executes it synchronously.
RunJudge ==
    \/ \E accepts \in BOOLEAN : JudgeGate(accepts)
    \/ Steps

NextJudge ==
    \/ \E q \in pool.queries, verdict \in BOOLEAN, fails \in BOOLEAN : chat(q, verdict, fails)
    \/ RunJudge

SpecJudge == InitJudge /\ [][NextJudge]_vars /\ WF_vars(RunJudge)

\* ------------------------------------------------------------------ claims
PipelineEntries == {"run", "run_generate_code", "run_execute_code"}

C2_NeverPropagates ==
    /\ pc # "raised"
    /\ (pc = "done" /\ entry \in PipelineEntries /\ result[1] # "output")
        => (result[1] = "error_string" /\ last_error = result[3])

\* C3: a call of an entry point that has ended has published exactly once,
\* with tracker.success true exactly when it returned its output.
C3_PublishExactlyOnce ==
    (pc \in {"done", "raised"} /\ entry \in PipelineEntries)
    => /\ obs.published = 1
       /\ obs.successAtPublish <=> (result[1] = "output")

\* C4, as stated, in the case most favourable to it: the first of two
\* consecutive runs stored a non-empty code, the second has the same cache key
\* with caching enabled and returned its output. Then the second run found the
\* code the first stored and the two runs issued at most one LLM
\* code-generation call in total.
C4_AtMostOneLlmCall ==
    (/\ pc = "done"
     /\ entry = "run"
     /\ result[1] = "output"
     /\ prev.wasRun
     /\ config.enable_cache
     /\ obs.key = prev.key
     /\ prev.stored \notin {None, ""})
    => /\ prev.llm + obs.llm <= 1
       /\ obs.hit
       /\ obs.hitCode = prev.stored

\* C4, amended: when the first of two consecutive runs stored a non-empty
\* code and the second has the same cache key with caching enabled, the
\* second run's CacheLookup hits, found_in_cache stays true for the rest of
\* the run, the code handed on is the code the first run stored, and the main
\* CodeGenerator step ran exactly once over the two runs. The LLM calls of
\* error-correction cycles are not bounded by this.
C4_CacheIdempotence ==
    (/\ entry = "run"
     /\ obs.lookups = 1
     /\ prev.wasRun
     /\ config.enable_cache
     /\ obs.key = prev.key
     /\ prev.stored \notin {None, ""})
    => /\ obs.hit
       /\ obs.hitCode = prev.stored
       /\ get("found_in_cache") = True
       /\ prev.gen + obs.gen = 1
       /\ obs.llm = obs.ecLlm
       /\ (obs.cleanIn # NoData => obs.cleanIn = <<"code", prev.stored>>)

\* A second run that was answered from the cache.
C4_Witness ==
    /\ pc = "done"
    /\ entry = "run"
    /\ prev.wasRun
    /\ obs.key = prev.key
    /\ prev.stored = "c1"
    /\ obs.hit
    /\ obs.gen = 0
    /\ result[1] = "output"

C6_ValidationFatality ==
    LET allSqlLikeFirst ==
            \A i \in 1..Len(dfs) :
                dfs[i].kind = "sql" /\ dfs[1].kind = "sql" /\ dfs[i].cred = dfs[1].cred
        allSqlEnabledPandas ==
            \A i \in 1..Len(dfs) : dfs[i].kind = "pandas" /\ dfs[i].sql_enabled
        validated == entry \in {"run", "run_generate_code"} /\ obs.validated = 1
    IN  /\ (validated /\ config.direct_sql /\ ~allSqlLikeFirst /\ ~allSqlEnabledPandas)
            => /\ pc \in {"except", "done"}
               /\ err = "InvalidConfigError"
               /\ (pc = "done" =>
                      /\ result = <<"error_string", "error", "InvalidConfigError">>
                      /\ last_error = "InvalidConfigError")
               /\ obs.lookups = 0
               /\ obs.llm = 0
               /\ obs.cleanCycles + obs.execCycles = 0
               /\ obs.pop = 0
               /\ cache = EmptyDict
        /\ (validated /\ ~config.direct_sql)
            => /\ err # "InvalidConfigError"
               /\ result[3] # "InvalidConfigError"
               /\ (pc = "lookup" => data = <<"input", obs.arg>>)
        /\ (validated /\ config.direct_sql /\ (allSqlLikeFirst \/ allSqlEnabledPandas))
            => err # "InvalidConfigError"

\* A run over an SQL connector and a pandas connector that ended with the
\* validation error.
C6_Witness ==
    /\ pc = "done"
    /\ entry = "run"
    /\ config.direct_sql
    /\ Len(dfs) = 2
    /\ dfs[1].kind = "sql"
    /\ dfs[2].kind = "pandas"
    /\ result = <<"error_string", "error", "InvalidConfigError">>

\* C7: a chat call whose query matches the dangerous-keyword pattern under the
\* "standard" or "advanced" security level, or that the security agent judges
\* malicious, returns the agent's error string in that very step: the pipeline
\* is not entered, no LLM call and no retry happen, and the tracker, the
\* conversation memory, the intermediate values and the cache are unchanged.
C7_MaliciousQueryRefused ==
    [][ (/\ pc \in {"idle", "done"}
         /\ prev'.runs = prev.runs + 1
         /\ entry' \in {"chat_refused", "run"}
         /\ \/ config.security \in {"standard", "advanced"}
                  /\ obs'.arg \in {"os", ".osx", "xchr("}
            \/ config.security_agent /\ obs'.verdict)
        => /\ entry' = "chat_refused"
           /\ pc' = "done"
           /\ result' = <<"agent_error", "error", "MaliciousQueryError">>
           /\ obs'.llm = 0
           /\ obs'.cleanCycles + obs'.execCycles = 0
           /\ ~obs'.began
           /\ UNCHANGED << tracker, memory, intermediate_values, cache >> ]_vars

\* A query holding the word os was refused under the standard level, on an
\* agent without a security agent.
C7_Witness ==
    /\ entry = "chat_refused"
    /\ config.security = "standard"
    /\ ~config.security_agent
    /\ obs.arg = "os"
    /\ result[1] = "agent_error"
    /\ ~tracker.started
    /\ memory = << >>

\* C8: when CodeExecution raised on its first attempt only and succeeded on
\* the corrected code, exactly one error-correction cycle ran, with one LLM
\* call beyond the generation step's, the code that was executed is the output
\* of that cycle, and the run returned the parsed result with
\* tracker.success = True.
C8_OneCorrectionThenSuccess ==
    (/\ pc = "done"
     /\ entry = "run"
     /\ obs.firstExecFailed
     /\ obs.execFails = 1
     /\ obs.execOk = 1
     /\ obs.cleanFails = 0)
    => /\ obs.execCycles = 1
       /\ obs.cleanCycles = 0
       /\ obs.ecLlm = 1
       /\ obs.llm = obs.gen + 1
       /\ obs.corrected # NoData
       /\ obs.executed = obs.corrected
       /\ result[1] = "output"
       /\ result[2] = "parsed"
       /\ tracker.success
       /\ obs.successAtPublish

\* The code c1 failed, the cycle produced c2, c2 ran and the run succeeded.
C8_Witness ==
    /\ pc = "done"
    /\ entry = "run"
    /\ obs.firstExecFailed
    /\ obs.execFails = 1
    /\ obs.execOk = 1
    /\ obs.cleanIn = <<"code", "c1">>
    /\ obs.executed = <<"cleaned", "c2">>
    /\ result = <<"output", "parsed", "valid">>

\* C9: right after the reset that begins a call of an entry point,
\* intermediate_values equals the initial_values given to the constructor
\* (empty when none was given).
C9_ResetToInitialSnapshot ==
    (entry \in PipelineEntries /\ pc # "idle") => obs.ivAfterReset = snapshot

\* C10: in one run the error-correction cycles started by CodeCleaning
\* failures and those started by CodeExecution failures together never exceed
\* config.max_retries.
C10_SharedRetryBudget ==
    /\ obs.cleanCycles + obs.execCycles <= config.max_retries
    /\ obs.cleanCycles + obs.execCycles = retry_count

\* Both stages used the budget in one run, and used it up.
C10_Witness ==
    /\ entry = "run"
    /\ obs.cleanCycles >= 1
    /\ obs.execCycles >= 1
    /\ obs.cleanCycles + obs.execCycles = config.max_retries

\* C11: with a judge, judge.evaluate is called at most max_retries times in a
\* run, the generation steps are run at most max_retries + 1 times (once plus
\* one regeneration per rejection), the first value CodeExecution receives is
\* the last candidate generated, the execution pipeline is entered once (its
\* steps ResultValidation and ResultParsing run at most once), and the loop
\* terminates: a run that is at the judge reaches CodeExecution or ends.
C11_JudgeBounds ==
    /\ obs.evals <= config.max_retries
    /\ obs.regens <= config.max_retries
    /\ obs.regens = judge_retry_count
    /\ obs.regens <= obs.evals
    /\ obs.validated <= obs.regens + 1
    /\ obs.lookups <= obs.regens + 1
    /\ obs.execFrom \in {"none", "candidate"}
    /\ (pc = "done" /\ result[1] = "output"
          => obs.execOk = 1 /\ obs.execFrom = "candidate"
             /\ obs.validated = obs.regens + 1)

C11_JudgeGate ==
    /\ []C11_JudgeBounds
    /\ (pc = "judge" ~> pc \in {"exec", "done"})

\* The judge rejected every candidate it was shown and the last candidate was
\* executed all the same.
C11_Witness ==
    /\ pc = "done"
    /\ config.max_retries = MaxRetriesBound
    /\ obs.evals = MaxRetriesBound
    /\ obs.regens = MaxRetriesBound
    /\ obs.validated = MaxRetriesBound + 1
    /\ obs.execOk = 1
    /\ result[1] = "output"

\* C12: a context built with enable_cache on always holds a cache. A context
\* built with enable_cache off holds none, also when the caller supplied one:
\* no lookup reads a cache or hits, found_in_cache is never set, the supplied
\* cache is never written, and every run that passes the lookup generates a
\* prompt and calls the LLM for the code.
C12_CacheSwitch ==
    /\ config.enable_cache => cache_present
    /\ ~config.enable_cache =>
         /\ ~cache_present
         /\ obs.reads = 0
         /\ ~obs.hit
         /\ ~is_cached
         /\ obs.pop = 0
         /\ cache \in SuppliedCaches
         /\ (obs.lookups = 1 /\ pc # "prompt" => obs.prompt = 1)
         /\ (obs.lookups = 1 /\ pc \notin {"prompt", "codegen"}
               => obs.gen = 1 /\ obs.llm >= 1)

\* Caching is off, the cache the caller supplied holds a code under the key
\* of the run, and the run generated its code with the LLM and returned.
C12_Witness ==
    /\ ~config.enable_cache
    /\ Truthy(cache_get(get_cache_key))
    /\ pc = "done"
    /\ result[1] = "output"
    /\ obs.lookups = 1
    /\ obs.gen = 1

\* No step of the call in progress has raised.
NoStepFailed == ~obs.otherFail /\ obs.cleanFails = 0 /\ obs.execFails = 0

\* C13: run_generate_code runs no CodeExecution, ResultValidation or
\* ResultParsing, and when no step fails it returns the generated (or cached)
\* code. The call through the class attribute code_generation_pipeline raises
\* before any step runs, and the error string is returned though no step failed.
C13_GenerateCodeOnly ==
    entry = "run_generate_code" =>
        /\ obs.execOk = 0 /\ obs.execFails = 0 /\ obs.execFrom = "none"
        /\ (pc = "done" /\ obs.began /\ NoStepFailed
              => result[1] = "output" /\ result[2] \in {"code", "cleaned"})

\* C14: run_execute_code runs CodeExecution, ResultValidation and
\* ResultParsing on the caller's code and nothing of the generation stages: no
\* input validation, no cache lookup or read, no prompt generation, no main
\* code generation or cleaning, no cache write; the LLM is called only inside
\* error-correction cycles, at most max_retries times.
C14_ExecuteCodeOnly ==
    entry = "run_execute_code" =>
        /\ obs.validated = 0
        /\ obs.lookups = 0 /\ obs.reads = 0 /\ ~obs.hit
        /\ obs.prompt = 0
        /\ obs.gen = 0
        /\ obs.pop = 0 /\ obs.stored = FreshObs.stored
        /\ obs.candidate = NoData /\ obs.cleanIn = NoData /\ obs.cleanFails = 0
        /\ obs.llm = obs.ecLlm
        /\ obs.ecLlm <= config.max_retries
        /\ obs.ecLlm <= obs.execFails
        /\ obs.execFrom \in {"none", "caller"}

\* run_execute_code used its whole budget of correction cycles, each with one
\* LLM call, and returned an output.
C14_Witness ==
    /\ entry = "run_execute_code"
    /\ pc = "done"
    /\ result[1] = "output"
    /\ config.max_retries = MaxRetriesBound
    /\ obs.ecLlm = MaxRetriesBound
    /\ obs.execOk = 1

\* C15: ResultValidation raises nothing and triggers no retry for any result:
\* its output is the unchanged input, success is True only for a dict that
\* passes the validator, a dict of another type gives success False with the
\* message 'Output Validation Failed', and the run goes on to ResultParsing
\* and returns that result with tracker.success = True.
C15_ValidationInformational ==
    obs.rvIn # None =>
        /\ pc \in {"parse", "finish", "done"}
        /\ err = None
        /\ obs.rv.value = obs.rvIn
        /\ (obs.rv.success <=> obs.rvIn \in DictResults /\ validation_ok(obs.rvIn))
        /\ (obs.rvIn = "invalid"
              => ~obs.rv.success /\ obs.rv.message = "Output Validation Failed")
        /\ (pc = "parse" => data = <<"result", obs.rvIn>>)
        /\ (pc = "done"
              => /\ result = <<"output", "parsed", obs.rvIn>>
                 /\ tracker.success
                 /\ obs.successAtPublish)

\* A run returned a dict of the wrong type as its output, marked successful.
C15_Witness ==
    /\ pc = "done"
    /\ entry = "run"
    /\ obs.rvIn = "invalid"
    /\ ~obs.rv.success
    /\ result = <<"output", "parsed", "invalid">>
    /\ tracker.success

\* C16: ErrorPromptGeneration builds one prompt in each correction cycle,
\* chosen by the kind of the exception alone: the output-type template
\* exactly for InvalidLLMOutputType, the SQL-helper template exactly for
\* ExecuteSQLQueryNotUsed, the generic template for every other exception; the
\* prompt carries the code that failed.
C16_PromptByExceptionKind ==
    /\ obs.ecPrompts <= obs.cleanCycles + obs.execCycles
    /\ (pc # "ec_prompt" => obs.ecPrompts = obs.cleanCycles + obs.execCycles)
    /\ (pc = "ec_prompt" => data[1] = "ecinput" /\ err \in ExceptionKinds)
    /\ (pc = "ec_codegen" <=> obs.ecPrompt # NoPrompt)
    /\ (obs.ecPrompt # NoPrompt =>
          /\ obs.ecPrompt.template \in {"CorrectOutputTypeErrorPrompt",
                                        "CorrectExecuteSQLQueryUsageErrorPrompt",
                                        "CorrectErrorPrompt"}
          /\ (obs.ecPrompt.template = "CorrectOutputTypeErrorPrompt"
                <=> obs.ecFor[1] = "InvalidLLMOutputType")
          /\ (obs.ecPrompt.template = "CorrectExecuteSQLQueryUsageErrorPrompt"
                <=> obs.ecFor[1] = "ExecuteSQLQueryNotUsed")
          /\ (obs.ecPrompt.template = "CorrectErrorPrompt"
                <=> obs.ecFor[1] \notin {"InvalidLLMOutputType", "ExecuteSQLQueryNotUsed"})
          /\ obs.ecPrompt.code = obs.ecFor[2]
          /\ data = <<"prompt", obs.ecPrompt.template>>)

\* A correction cycle after ExecuteSQLQueryNotUsed built the SQL-helper
\* prompt around the failing code.
C16_Witness ==
    /\ pc = "ec_codegen"
    /\ obs.execCycles = 1
    /\ obs.ecPrompts = 1
    /\ obs.ecFor = <<"ExecuteSQLQueryNotUsed", "c1">>
    /\ obs.ecPrompt = [template |-> "CorrectExecuteSQLQueryUsageErrorPrompt", code |-> "c1"]

\* C17: an exception raised by the LLM in the main CodeGenerator or in the
\* CodeGenerator of a correction cycle ends the run only when the retry
\* budget is spent. CodeGenerator is built without an on_retry hook, so the
\* exception ends the run with budget left.
C17_LlmFailureRetried ==
    pc = "done" /\ result = <<"error_string", "error", "LLMError">>
        => retry_count >= config.max_retries

\* Two calls that missed under one key and both wrote their code under it.
BothPopulated(t, u) ==
    /\ t # u
    /\ CallOf(t).missed /\ CallOf(u).missed
    /\ CallOf(t).key = CallOf(u).key
    /\ CallOf(t).stored # None /\ CallOf(u).stored # None

\* C18: two agents share a cache and their calls overlap. No call ends with an
\* error; when both calls missed under the same key and both populated the
\* cache, the cache holds under that key the code of the call that wrote last,
\* one of the two codes, and a later lookup under the key returns that code.
C18_CacheLastWriterWins ==
    /\ \A t \in Threads :
          CallOf(t).pc = "done" => CallOf(t).result[1] = "output"
    /\ \A t \in Threads, u \in Threads :
          BothPopulated(t, u) =>
              LET key == CallOf(t).key
              IN  /\ key \in DOMAIN cache /\ key \in DOMAIN inflight.lastWriter
                  /\ cache[key] = CallOf(inflight.lastWriter[key]).stored
                  /\ cache[key] \in {CallOf(t).stored, CallOf(u).stored}
                  /\ (inflight.later # NoData /\ inflight.later[1] = key
                        => inflight.later[2] = cache[key])

\* Both calls missed and wrote different codes under the same key; the later
\* lookup returned the code of the last writer.
C18_Witness ==
    /\ BothPopulated("t1", "t2")
    /\ CallOf("t1").stored # CallOf("t2").stored
    /\ inflight.later # NoData
    /\ inflight.later[1] = CallOf("t1").key
    /\ inflight.later[2] = CallOf("t1").stored
    /\ inflight.lastWriter[CallOf("t1").key] = "t1"

\* C19: while a call is in flight, what it wrote to intermediate_values is
\* still there and the tracker holds exactly the steps it recorded. Two calls
\* on one agent share the agent's context and tracker, and the preamble of one
\* erases the values and steps of the other.
C19_RunsIsolated ==
    \A t \in Threads :
        CallOf(t).pc \notin {"idle", "done"} =>
            /\ \A k \in DOMAIN CallOf(t).wrote :
                  DictGet(ContextOf(t).intermediate_values, k, None) = CallOf(t).wrote[k]
            /\ Len(ContextOf(t).steps) = CallOf(t).recorded
            /\ \A i \in 1..Len(ContextOf(t).steps) : ContextOf(t).steps[i][1] = t

\* The place of each position of a call in the declaration order of the
\* steps; inside a correction cycle, the place of the stage that failed.
StepOrder ==
    [idle |-> 0, try |-> 0, validate |-> 1, lookup |-> 2, prompt |-> 3, codegen |-> 4,
     populate |-> 5, clean |-> 6, exec |-> 7, resval |-> 8, parse |-> 9,
     finish |-> 10, except |-> 10, raised |-> 10, done |-> 10]

Position ==
    IF pc \in {"ec_prompt", "ec_codegen", "ec_clean"} THEN StepOrder[retStage]
    ELSE StepOrder[pc]

\* The number of records of a step in the tracker.
Recorded(name) ==
    Cardinality({ i \in 1..Len(tracker.steps) : tracker.steps[i][1] = name })

SkipHolds ==
    \/ pc \in {"prompt", "codegen", "populate"} /\ Truthy(get("found_in_cache"))
    \/ pc = "clean" /\ get("last_code_generated") = None

\* The position after a step of the generation pipeline.
NextStage ==
    CASE pc = "prompt" -> "codegen"
      [] pc = "codegen" -> "populate"
      [] pc = "populate" -> "clean"
      [] pc = "clean" -> AfterGeneration
      [] OTHER -> pc

\* C21: a step whose skip_if predicate holds hands the value it received to
\* the next step unchanged; it is not executed (no prompt built, no LLM call,
\* no cache write, no cleaning), none of its hooks runs (no tracker record, no
\* failure record, no correction cycle), and intermediate_values, the memory
\* and the cache are as they were before the step.
C21_SkippedStepIsNoOp ==
    [][ SkipHolds
        => /\ pc' = NextStage
           /\ data' = data
           /\ intermediate_values' = intermediate_values
           /\ initial_values' = initial_values
           /\ memory' = memory
           /\ cache' = cache
           /\ cache_present' = cache_present
           /\ tracker' = tracker
           /\ err' = err
           /\ retry_count' = retry_count
           /\ obs'.prompt = obs.prompt
           /\ obs'.gen = obs.gen
           /\ obs'.llm = obs.llm
           /\ obs'.pop = obs.pop
           /\ obs'.cleanIn = obs.cleanIn
           /\ obs'.cleanFails = obs.cleanFails
           /\ obs'.cleanCycles = obs.cleanCycles ]_vars

\* A run answered from the cache is at CodeCleaning: the three steps before it
\* were skipped, the tracker holds the records of the first two steps only and
\* the value at hand is the code CacheLookup returned.
C21_Witness ==
    /\ pc = "clean"
    /\ obs.hit
    /\ Truthy(get("found_in_cache"))
    /\ data = <<"code", "c2">>
    /\ Len(tracker.steps) = 2
    /\ obs.prompt = 0 /\ obs.gen = 0 /\ obs.pop = 0

\* A step without an on_retry hook raised in this step of the behaviour.
HooklessStepFails == ~obs.otherFail /\ obs'.otherFail

\* C22: when a step built without an on_retry hook raises, no error-correction
\* cycle starts: the retry counter, the cycle counts and the tracker's records
\* stay as they are and the exception goes to the except clause of the entry
\* point; the call then ends with the error string, last_error set and
\* tracker.success = False, published as such.
C22_NoRetryHookPropagates ==
    /\ [](obs.otherFail
            => /\ pc \in {"except", "done"}
               /\ err \in {"InvalidConfigError", "LLMError", "StepError", "Exception"}
               /\ (pc = "done"
                     => /\ result = <<"error_string", "error", err>>
                        /\ last_error = err
                        /\ ~tracker.success
                        /\ obs.published = 1
                        /\ ~obs.successAtPublish))
    /\ [][ HooklessStepFails
           => /\ pc' = "except"
              /\ retry_count' = retry_count
              /\ obs'.cleanCycles = obs.cleanCycles
              /\ obs'.execCycles = obs.execCycles
              /\ obs'.ecPrompts = obs.ecPrompts
              /\ obs'.llm \in {obs.llm, obs.llm + 1}
              /\ tracker' = tracker ]_vars

\* ResultParsing raised after the code had run and its result had been
\* validated: the call ended with the error string.
C22_Witness ==
    /\ pc = "done"
    /\ entry = "run"
    /\ obs.otherFail
    /\ obs.execOk = 1 /\ obs.resval = 1 /\ obs.parsed = 0
    /\ obs.cleanCycles + obs.execCycles = 0
    /\ result = <<"error_string", "error", "StepError">>
    /\ ~tracker.success

\* The records of failed attempts in the tracker, in the tracker's order.
FailureRecords ==
    SelectSeq(tracker.steps,
              LAMBDA r : r \in {<<"CodeCleaning", FALSE>>, <<"CodeExecution", FALSE>>})

\* The main CodeCleaning or CodeExecution fails in this step of the behaviour.
AttemptFails ==
    /\ prev' = prev
    /\ obs'.cleanFails + obs'.execFails = obs.cleanFails + obs.execFails + 1

\* C23: every failed attempt of the main CodeCleaning or CodeExecution adds
\* one record to the tracker, built by the failure hook from the code that
\* failed and the exception: type of the stage, success False, execution_time
\* None. The record is the tracker's last when the correction cycle starts, the
\* tracker holds as many failure records as attempts failed, records are only
\* ever appended within a call, and the caller receives the parsed result or
\* the error string and nothing of the retries.
C23_FailureRecords ==
    /\ [](/\ Len(FailureRecords) = obs.cleanFails + obs.execFails
          /\ (obs.failure # NoFailure
                => /\ pc \in {"ec_prompt", "except", "done"}
                   /\ obs.failure.type \in {"CodeCleaning", "CodeExecution"}
                   /\ ~obs.failure.success
                   /\ obs.failure.execution_time = None
                   /\ obs.failure.data =
                         [content_type |-> "code", value |-> data[2], exception |-> err]
                   /\ tracker.steps[Len(tracker.steps)] = Brief(obs.failure))
          /\ (pc = "ec_prompt"
                => /\ obs.failure # NoFailure
                   /\ obs.failure.type = StageName(retStage)
                   /\ obs.ecPrompts + 1 = obs.cleanCycles + obs.execCycles)
          /\ (pc = "done" /\ entry \in PipelineEntries /\ obs.began
                => \/ result[1] = "output" /\ result[3] \in pool.results \cup pool.codes
                   \/ result[1] = "error_string" /\ result[3] = err))
    /\ [][ /\ (AttemptFails
                 => /\ obs'.failure = failure_step(pc, data[2], err')
                    /\ tracker'.steps = Append(tracker.steps, Brief(obs'.failure))
                    /\ obs'.ecPrompts = obs.ecPrompts
                    /\ obs'.llm = obs.llm)
           /\ (prev' = prev /\ tracker'.steps # tracker.steps
                 => /\ Len(tracker'.steps) = Len(tracker.steps) + 1
                    /\ SubSeq(tracker'.steps, 1, Len(tracker.steps)) = tracker.steps) ]_vars

\* Cleaning failed once and execution failed twice in one run: the tracker
\* holds the three failure records in that order, and the run returned the
\* error string after its two correction cycles.
C23_Witness ==
    /\ pc = "done"
    /\ entry = "run"
    /\ config.max_retries = 2
    /\ obs.cleanFails = 1 /\ obs.execFails = 2
    /\ FailureRecords = << <<"CodeCleaning", FALSE>>, <<"CodeExecution", FALSE>>,
                           <<"CodeExecution", FALSE>> >>
    /\ obs.failure.data.exception = "InvalidLLMOutputType"
    /\ result = <<"error_string", "error", "InvalidLLMOutputType">>

\* publish is called in this step of the behaviour.
PublishStep == prev' = prev /\ obs'.published = obs.published + 1

\* The answers after which the collector has not acknowledged the trace.
CollectorFailures == {"status_500", "transport_error", "bad_json"}

CallBegins == prev'.runs = prev.runs + 1 /\ entry' \in PipelineEntries

C26_CallLlmRetries ==
    /\ prompt_call.calls <= config.max_retries
    /\ prompt_call.failed <= prompt_call.calls
    /\ (prompt_call.pc = "returned"
          => /\ prompt_call.result = "response"
             /\ prompt_call.calls = prompt_call.failed + 1)
    /\ (prompt_call.pc = "raised"
          => /\ prompt_call.error = prompt_call.last_failure
             /\ prompt_call.calls = prompt_call.failed
             /\ (~prompt_call.use_error_correction_framework => prompt_call.failed = 1)
             /\ (prompt_call.use_error_correction_framework
                   => prompt_call.failed = config.max_retries))

\* An entry point of the agent is called in this step of the behaviour.
AgentCallBegins == prev'.runs = prev.runs + 1

\* C27: chat, generate_code and execute_code never raise. Every exception
\* that leaves the pipeline's entry point, or is raised before its try block,
\* is caught by the agent, which returns its error string carrying that
\* exception; a call that has returned gave the pipeline's output, the
\* pipeline's error string or the agent's error string. An agent without a
\* pipeline returns the 'No pipeline exists' string at once: the memory, the
\* tracker, the context and the cache are unchanged and no LLM call is made.
C27_FacadeNeverRaises ==
    /\ [](pc # "escaped")
    /\ [](pc = "done" => result[1] \in {"output", "error_string", "agent_error"})
    /\ [][pc = "raised"
            => pc' = "done" /\ result' = <<"agent_error", "error", err>>]_vars
    /\ [][AgentCallBegins /\ wiring.pipeline = "none"
            => /\ pc' = "done"
               /\ result' = <<"agent_error", "error", "No pipeline exists">>
               /\ obs'.llm = 0
               /\ UNCHANGED << memory, tracker, intermediate_values, cache >>]_vars
    /\ [](wiring.pipeline = "none" => obs.llm = 0 /\ memory = << >> /\ tracker = NewTracker)

\* The pipeline built by Agent.__init__ raised in its preamble and the agent
\* returned its error string.
C27_Witness ==
    /\ wiring.pipeline = "untracked"
    /\ pc = "done"
    /\ result = <<"agent_error", "error", "AttributeError">>

\* C28: a call of run, run_generate_code or run_execute_code appends one
\* user message, the query or the supplied code, to the memory as it begins,
\* and no other step of the call changes the memory, whatever the number of
\* error-correction cycles and of regenerations asked by the judge; only
\* clear_memory removes messages. A call whose preamble raises before
\* memory.add (tracker.add_dataframes on a connector whose get_schema raises)
\* appends nothing.
C28_OneMessagePerCall ==
    /\ [][CallBegins => memory' = Append(memory, <<obs'.arg, TRUE>>)]_vars
    /\ [][~CallBegins /\ memory' # memory => memory' = << >>]_vars

\* C29: a call whose CacheLookup has set found_in_cache hands downstream the
\* non-empty value that the condition of the lookup found under its key, and
\* a call whose lookup missed has not set found_in_cache. Between the first
\* cache.get and the second, the CachePopulation of a call that missed earlier
\* may replace the entry: the lookup then hands on the replacement.
C29_LookupHitConsistent ==
    \A t \in Callers :
        /\ (CallOf(t).pc \in {"prompt", "codegen", "populate", "finish"}
              /\ "found_in_cache" \in DOMAIN CallOf(t).wrote)
           => /\ Truthy(CallOf(t).seen)
              /\ CallOf(t).data = <<"code", CallOf(t).seen>>
        /\ CallOf(t).missed => "found_in_cache" \notin DOMAIN CallOf(t).wrote

\* C30: with a judge and caching on, in a call that began on an empty cache,
\* every run of the generation steps that has handed a candidate to the
\* judge executed the main CodeGenerator: one LLM generation for the first
\* candidate and one more for each regeneration the judge asked for. The
\* regeneration's CacheLookup finds the entry that CachePopulation wrote for
\* the rejected candidate, sets found_in_cache, and the rejected code comes
\* back without an LLM call.
C30_JudgeRegeneratesAfresh ==
    (config.enable_cache /\ pc = "judge") => obs.gen = obs.regens + 1

====
